---------------------------- MODULE Spec2Model ----------------------------
(***************************************************************************)
(* Model of the ItisPay fraud-risk scoring core: the fiat anomaly          *)
(* analyzer (fiat_analyzer.py), the crypto address analyzer and its        *)
(* Etherscan client (crypto_analyzer.py), the USDC transfer analyzer       *)
(* (usdc_analyzer.py) and the cross-channel scorer (risk_scoring.py).      *)
(*                                                                         *)
(* Numbers.  Python floats are modelled exactly as fixed-point integers:   *)
(* a channel score s in [0,1] is the integer s * UNIT, a 0-100 score with  *)
(* two decimals is the integer of its hundredths (29.99 is 2999).  The     *)
(* inputs are chosen so that every intermediate value is exact; round(x,2) *)
(* is RoundDiv, round-half-even on the exact quotient.                     *)
(***************************************************************************)
EXTENDS Integers, Sequences, FiniteSets, TLC

VARIABLES
    usdc_weight,      \* risk_scoring.py:4 imports USDC_WEIGHT, config.py never sets it
    dummies_numeric,  \* whether pd.get_dummies yields numeric (uint8) columns: pandas < 2.0
    is_trained,       \* FiatTransactionAnalyzer.is_trained
    training_data,    \* FiatTransactionAnalyzer.training_data (rows of the DataFrame)
    model,            \* FiatTransactionAnalyzer.model, the IsolationForest
    address_cache,    \* CryptoTransactionAnalyzer.address_cache
    rate_limiter,     \* CryptoTransactionAnalyzer.rate_limiter, an EtherscanRateLimiter
    call,             \* the operation that ran last, with its inputs
    ret,              \* what that operation returned (or that it raised)
    inflight          \* the calls in progress on the server's threads: position and locals

vars == <<usdc_weight, dummies_numeric, is_trained, training_data, model,
          address_cache, rate_limiter, call, ret, inflight>>

---------------------------------------------------------------------------
(* Fixed-point scale and arithmetic helpers *)

UNIT == 6 * 100000

Tenths(k) == k * (UNIT \div 10)

Max2(a, b) == IF a >= b THEN a ELSE b

Min2(a, b) == IF a <= b THEN a ELSE b

\* round(n / d) to the nearest integer, ties to even (Python's round); n >= 0, d > 0
RoundDiv(n, d) ==
    LET q == n \div d
        r == n % d
    IN  IF 2 * r < d THEN q
        ELSE IF 2 * r > d THEN q + 1
        ELSE IF q % 2 = 0 THEN q ELSE q + 1

\* One hundredth of a point of the 0-100 scale, as a channel score
HUNDREDTH == UNIT \div 10000

\* round(score * 100, 2) of a channel score, in hundredths
Round2(score) == RoundDiv(score, HUNDREDTH)

RECURSIVE SumSeq(_)
SumSeq(s) == IF s = <<>> THEN 0 ELSE Head(s) + SumSeq(Tail(s))

SeqToSet(s) == {s[i] : i \in 1..Len(s)}

\* An alert message: its template text with the strings and numbers formatted into it
Alert(text, s, n) == [channel |-> "", text |-> text, s |-> s, n |-> n]

---------------------------------------------------------------------------
(* config.py *)

FIAT_WEIGHT == 50

CRYPTO_WEIGHT == 50

LOW_RISK_THRESHOLD == 30

MEDIUM_RISK_THRESHOLD == 70

HIGH_RISK_THRESHOLD == 90

\* fatf_lists.py: FATF_GREY_LIST (upper-case codes; membership is case-sensitive)
FATF_GREY_LIST ==
    {"AL", "BB", "BF", "BI", "BW", "CF", "DZ", "ES", "GH", "HT", "JM", "JO", "KH", "MA",
     "ML", "MU", "MZ", "NG", "PK", "PA", "SD", "SN", "SY", "TR", "UG", "YE", "ZW"}

---------------------------------------------------------------------------
(* utils.py *)

\* The strings of the model that match ^(\d{1,3})\.(\d{1,3})\.(\d{1,3})\.(\d{1,3})$
\* with every octet <= 255 ("999.1.1.1" matches the pattern and fails the octet test)
IpLiterals == {"8.8.8.8", "41.58.0.1"}

IsValidIp(ip) == ip \in IpLiterals

\* get_risk_level with the first comparison inclusive (score <= LOW_RISK_THRESHOLD)
GetRiskLevelInclusive(score) ==
    IF score <= LOW_RISK_THRESHOLD * 100 THEN "Low"
    ELSE IF score < MEDIUM_RISK_THRESHOLD * 100 THEN "Medium"
    ELSE IF score < HIGH_RISK_THRESHOLD * 100 THEN "High"
    ELSE "Critical"

\* get_risk_level: score in hundredths of a point
GetRiskLevel(score) ==
    IF score < LOW_RISK_THRESHOLD * 100 THEN "Low"
    ELSE IF score < MEDIUM_RISK_THRESHOLD * 100 THEN "Medium"
    ELSE IF score < HIGH_RISK_THRESHOLD * 100 THEN "High"
    ELSE "Critical"

---------------------------------------------------------------------------
(* fiat_analyzer.py: FiatTransactionAnalyzer *)

\* A fiat transaction dict.  keys: the keys it has; amount_num / geo_is_str: whether
\* the value under 'amount' is a number and the value under 'geo_ip' a string.
FiatTx(keys, amount, amount_num, currency, card_country, geo_ip, geo_is_str) ==
    [present |-> TRUE, keys |-> keys, amount |-> amount, amount_num |-> amount_num,
     currency |-> currency, card_country |-> card_country, geo_ip |-> geo_ip,
     geo_is_str |-> geo_is_str]

FiatFields == {"amount", "currency", "card_country", "geo_ip"}

FiatLeg(amount, currency, card_country, geo_ip) ==
    FiatTx(FiatFields, amount, TRUE, currency, card_country, geo_ip, TRUE)

NoFiat == [present |-> FALSE, keys |-> {}, amount |-> 0, amount_num |-> TRUE,
           currency |-> "", card_country |-> "", geo_ip |-> "", geo_is_str |-> TRUE]

\* A row of a training DataFrame (columns amount, currency, card_country, geo_ip)
Row(amount, currency, card_country, geo_ip) ==
    [amount |-> amount, currency |-> currency, card_country |-> card_country,
     geo_ip |-> geo_ip]

\* The category values of the model in pandas' (sorted) column order
CategoryOrder == <<"8.8.8.8", "DE", "EUR", "NG", "US", "USD", "ng">>

\* pd.get_dummies(column, prefix): one column per distinct value, sorted
Dummies(prefix, values) ==
    LET keep(v) == v \in values
        names == SelectSeq(CategoryOrder, keep)
    IN  [i \in 1..Len(names) |-> <<prefix, names[i]>>]

\* _preprocess_data: the columns of the frame it returns, in order.  The one-hot
\* columns survive select_dtypes(include=[np.number]) only when they are numeric.
PreprocessColumns(rows, numeric_dummies) ==
    IF rows = <<>> THEN <<>>
    ELSE LET onehot == Dummies("currency", {rows[i].currency : i \in 1..Len(rows)})
                       \o Dummies("card", {rows[i].card_country : i \in 1..Len(rows)})
                       \o Dummies("geo", {rows[i].geo_ip : i \in 1..Len(rows)})
         IN  (IF numeric_dummies THEN onehot ELSE <<>>)
             \o << <<"geo_mismatch", "">>, <<"log_amount", "">> >>

\* head(1) of a DataFrame
HeadOne(rows) == IF rows = <<>> THEN <<>> ELSE <<rows[1]>>

\* The untrained estimator of __init__, and the estimator after fit(X): what it
\* was fitted on decides what it accepts and answers.
UnfittedModel == [fitted |-> FALSE, data |-> <<>>]

FittedModel(data) == [fitted |-> TRUE, data |-> data]

\* _validate_transaction: "ok", "invalid" (a required key is missing) or "raise"
\* (is_valid_ip applies re.match to a value that is no string: TypeError)
FiatValidateTransaction(tx) ==
    IF ~(FiatFields \subseteq tx.keys) THEN "invalid"
    ELSE IF ~tx.geo_is_str THEN "raise"
    ELSE "ok"

\* _rule_based_analysis; ip_country is what get_country_from_ip answers ("" for None)
GeoMismatchRule(tx, ip_country) ==
    IF tx.card_country # tx.geo_ip
    THEN IF IsValidIp(tx.geo_ip)
         THEN IF ip_country # "" /\ ip_country # tx.card_country
              THEN [risk |-> Tenths(5),
                    alerts |-> <<Alert("Geo mismatch: {} IP vs {} card",
                                       <<ip_country, tx.card_country>>, <<>>)>>]
              ELSE [risk |-> 0, alerts |-> <<>>]
         ELSE [risk |-> Tenths(5),
               alerts |-> <<Alert("Geo mismatch: {} vs {}",
                                  <<tx.geo_ip, tx.card_country>>, <<>>)>>]
    ELSE [risk |-> 0, alerts |-> <<>>]

LargeAmountRule(tx) ==
    IF tx.amount > 10000
    THEN [risk |-> Tenths(3),
          alerts |-> <<Alert("Large transaction amount: {} {}", <<tx.currency>>, <<tx.amount>>)>>]
    ELSE [risk |-> 0, alerts |-> <<>>]

GreyListRule(tx) ==
    LET card == IF tx.card_country \in FATF_GREY_LIST
                THEN [risk |-> Tenths(4),
                      alerts |-> <<Alert("Card from FATF grey-listed country: {}",
                                         <<tx.card_country>>, <<>>)>>]
                ELSE [risk |-> 0, alerts |-> <<>>]
        geo ==  IF tx.geo_ip \in FATF_GREY_LIST
                THEN [risk |-> Tenths(4),
                      alerts |-> <<Alert("IP from FATF grey-listed country: {}",
                                         <<tx.geo_ip>>, <<>>)>>]
                ELSE [risk |-> 0, alerts |-> <<>>]
    IN  [risk |-> card.risk + geo.risk, alerts |-> card.alerts \o geo.alerts]

\* The sum of the rules left as it is
RuleScoreUncapped(sum) == sum

\* line 203: risk_score = min(risk_score, 1.0)
RuleScoreCap(sum) == Min2(sum, UNIT)

\* amount > 10000 raises TypeError when the amount is no number
RuleBasedAnalysis(tx, ip_country) ==
    IF ~tx.amount_num THEN [raised |-> TRUE, score |-> 0, alerts |-> <<>>]
    ELSE LET geo == GeoMismatchRule(tx, ip_country)
             amt == LargeAmountRule(tx)
             grey == GreyListRule(tx)
         IN  [raised |-> FALSE,
              score |-> RuleScoreCap(geo.risk + amt.risk + grey.risk),
              alerts |-> geo.alerts \o amt.alerts \o grey.alerts]

\* The columns _model_based_analysis hands to the estimator: those of the first
\* row of the stored training data (line 224), whatever the transaction has
TrainedColumns(data, numeric_dummies) == PreprocessColumns(HeadOne(data), numeric_dummies)

\* IsolationForest.decision_function on a vector with these columns: it raises
\* (NotFittedError, or ValueError on a feature-count mismatch) or answers the
\* decision value d of the fitted forest for the vector
DecisionAccepts(m, cols, numeric_dummies) ==
    /\ m.fitted
    /\ Len(cols) = Len(PreprocessColumns(m.data, numeric_dummies))

\* risk_score = 0.5 - anomaly_score / 2
ModelRisk(d) == (UNIT \div 2) - (d \div 2)

ModelAlerts(tx, cols, risk) ==
    IF risk > Tenths(7)
    THEN <<Alert("Transaction flagged as anomalous by ML model", <<>>, <<>>)>>
         \o (IF <<"geo_mismatch", "">> \in SeqToSet(cols) /\ tx.card_country # tx.geo_ip
             THEN <<Alert("Unusual geographic pattern detected", <<>>, <<>>)>> ELSE <<>>)
         \o (IF <<"log_amount", "">> \in SeqToSet(cols) /\ tx.amount > 5000
             THEN <<Alert("Unusual transaction amount", <<>>, <<>>)>> ELSE <<>>)
    ELSE <<>>

\* _model_based_analysis against the estimator m and the stored training data
ModelBasedAnalysis(tx, m, data, numeric_dummies, d) ==
    LET cols == TrainedColumns(data, numeric_dummies)
    IN  IF ~DecisionAccepts(m, cols, numeric_dummies)
        THEN [raised |-> TRUE, score |-> 0, alerts |-> <<>>]
        ELSE [raised |-> FALSE, score |-> ModelRisk(d),
              alerts |-> ModelAlerts(tx, cols, ModelRisk(d))]

\* the blend with its two weights exchanged: 0.3 * model_score + 0.7 * rule_score
BlendScoresSwapped(model_score, rule_score) == (3 * model_score + 7 * rule_score) \div 10

\* combined_score = 0.7 * model_score + 0.3 * rule_score
BlendScores(model_score, rule_score) == (7 * model_score + 3 * rule_score) \div 10

FiatRaised == [raised |-> TRUE, score |-> 0, alerts |-> <<>>, path |-> "raised",
               rule_score |-> 0, model_score |-> 0]

\* analyze: trained / m / data are the analyzer's fields as this call reads them
FiatAnalyze(tx, trained, m, data, numeric_dummies, ip_country, d) ==
    LET valid == FiatValidateTransaction(tx)
        rule == RuleBasedAnalysis(tx, ip_country)
        mdl == ModelBasedAnalysis(tx, m, data, numeric_dummies, d)
    IN  IF valid = "raise" THEN FiatRaised
        ELSE IF valid = "invalid"
        THEN [raised |-> FALSE, score |-> Tenths(8),
              alerts |-> <<Alert("Invalid transaction data", <<>>, <<>>)>>,
              path |-> "invalid", rule_score |-> 0, model_score |-> 0]
        ELSE IF rule.raised THEN FiatRaised
        ELSE IF trained
        THEN IF mdl.raised THEN FiatRaised
             ELSE [raised |-> FALSE, score |-> BlendScores(mdl.score, rule.score),
                   alerts |-> rule.alerts \o mdl.alerts, path |-> "blend",
                   rule_score |-> rule.score, model_score |-> mdl.score]
        ELSE [raised |-> FALSE, score |-> rule.score, alerts |-> rule.alerts,
              path |-> "rule", rule_score |-> rule.score, model_score |-> 0]

---------------------------------------------------------------------------
(* risky_addresses.py.  The model's addresses abbreviate 42-character ones. *)

\* KNOWN_MIXER_ADDRESSES (lower case), e.g. 0xd90e2f92...
KNOWN_MIXER_ADDRESSES == {"0xd90e", "0x8589"}

\* KNOWN_DARKNET_ADDRESSES; "0x9cbt" stands for the entry of line 27, which ends
\* in the letter t and so is no hexadecimal address
KNOWN_DARKNET_ADDRESSES == {"0x3cbd", "0x9cbt"}

KNOWN_SCAM_ADDRESSES == {"0x1446"}

\* The keys of RISKY_ADDRESSES_WITH_SCORES
RISKY_ADDRESSES == KNOWN_MIXER_ADDRESSES \cup KNOWN_DARKNET_ADDRESSES \cup KNOWN_SCAM_ADDRESSES

\* str.lower() on the addresses of the model: "0xD90E" is "0xd90e" in upper case
Lower(a) == IF a = "0xD90E" THEN "0xd90e" ELSE a

\* utils.is_valid_eth_address: the strings of the model matching ^0x[a-fA-F0-9]{40}$
HexAddresses == {"0x742d", "0xd90e", "0xD90E", "0x8589", "0x3cbd", "0x1446", "0xbeef"}

IsValidEthAddress(a) == a \in HexAddresses

---------------------------------------------------------------------------
(* crypto_analyzer.py: CryptoTransactionAnalyzer *)

\* A crypto transaction dict.  addr_is_str: the value under 'address' is a string;
\* amount_kind: "pos", "zero" (both parse with float()) or "text" (float() fails)
CryptoTx(keys, address, addr_is_str, currency, amount_kind) ==
    [present |-> TRUE, keys |-> keys, address |-> address, addr_is_str |-> addr_is_str,
     currency |-> currency, amount_kind |-> amount_kind]

CryptoFields == {"address", "currency", "amount"}

CryptoLeg(address, currency) == CryptoTx(CryptoFields, address, TRUE, currency, "pos")

NoCrypto == [present |-> FALSE, keys |-> {}, address |-> "", addr_is_str |-> TRUE,
             currency |-> "", amount_kind |-> "pos"]

\* A record of an Etherscan result list: value in units of 10^15 wei, timeStamp in
\* seconds; value_numeric and stamp_numeric tell whether the field's text is a number
LedgerTx(from, to, value, timeStamp) ==
    [from |-> from, to |-> to, value |-> value, timeStamp |-> timeStamp,
     value_numeric |-> TRUE, stamp_numeric |-> TRUE]

\* The same record with a value, or a timeStamp, that is not the text of a number
NonNumericValue(tx) == [tx EXCEPT !.value = 0, !.value_numeric = FALSE]

NonNumericStamp(tx) == [tx EXCEPT !.timeStamp = 0, !.stamp_numeric = FALSE]

\* What one HTTP request to the API comes to: "ok" (200, status "1", a result list),
\* "http" (status code not 200), "api" (status not "1"), "malformed" (a body json()
\* or the key lookups fail on) or "exception" (requests.get raises)
Response(kind, result) == [kind |-> kind, result |-> result]

\* _validate_transaction: "ok", "invalid" or "raise" (re.match on a non-string)
CryptoValidateTransaction(tx) ==
    IF ~(CryptoFields \subseteq tx.keys) THEN "invalid"
    ELSE IF ~tx.addr_is_str THEN "raise"
    ELSE IF ~IsValidEthAddress(tx.address) THEN "invalid"
    ELSE IF tx.amount_kind = "text" THEN "invalid"
    ELSE "ok"

\* _check_known_risky_address
CheckKnownRiskyAddress(address) ==
    LET mixer == Lower(address) \in KNOWN_MIXER_ADDRESSES
        darknet == Lower(address) \in KNOWN_DARKNET_ADDRESSES
    IN  [risk |-> IF darknet THEN UNIT ELSE IF mixer THEN Tenths(9) ELSE 0,
         alerts |-> (IF mixer THEN <<Alert("Address is a known mixer: {}", <<address>>, <<>>)>>
                     ELSE <<>>)
                    \o (IF darknet
                        THEN <<Alert("Address is associated with darknet markets: {}",
                                     <<address>>, <<>>)>>
                        ELSE <<>>)]

\* _get_address_transactions.  cache: the address_cache it finds; r1, r2: what the
\* txlist and the txlistinternal request come to if they are sent.  Answers the
\* list (none: it returned None), the cache it leaves, and the requests it sent.
Unavailable(cache, requests) ==
    [none |-> TRUE, txs |-> <<>>, cache |-> cache, requests |-> requests, hit |-> FALSE]

\* A client that never looks into its cache
GetAddressTransactionsUncached(cache, address, currency, r1, r2) ==
    IF currency # "ETH" /\ ~IsValidEthAddress(address) THEN Unavailable(cache, 0)
    ELSE IF r1.kind # "ok" THEN Unavailable(cache, 1)
    ELSE IF r2.kind \in {"exception", "malformed"} THEN Unavailable(cache, 2)
    ELSE LET all == IF r2.kind = "ok" THEN r1.result \o r2.result ELSE r1.result
         IN  [none |-> FALSE, txs |-> all,
              cache |-> [a \in DOMAIN cache \cup {address} |->
                            IF a = address THEN all ELSE cache[a]],
              requests |-> 2, hit |-> FALSE]

\* A client that stores the txlist result before it asks for the internal ones
GetAddressTransactionsEarlyWrite(cache, address, currency, r1, r2) ==
    IF address \in DOMAIN cache
    THEN [none |-> FALSE, txs |-> cache[address], cache |-> cache, requests |-> 0,
          hit |-> TRUE]
    ELSE IF currency # "ETH" /\ ~IsValidEthAddress(address) THEN Unavailable(cache, 0)
    ELSE IF r1.kind # "ok" THEN Unavailable(cache, 1)
    ELSE LET all == IF r2.kind = "ok" THEN r1.result \o r2.result ELSE r1.result
             written == [a \in DOMAIN cache \cup {address} |->
                            IF a = address THEN all ELSE cache[a]]
         IN  IF r2.kind \in {"exception", "malformed"} THEN Unavailable(written, 2)
             ELSE [none |-> FALSE, txs |-> all, cache |-> written, requests |-> 2,
                   hit |-> FALSE]

GetAddressTransactions(cache, address, currency, r1, r2) ==
    IF address \in DOMAIN cache
    THEN [none |-> FALSE, txs |-> cache[address], cache |-> cache, requests |-> 0,
          hit |-> TRUE]
    ELSE IF currency # "ETH" /\ ~IsValidEthAddress(address) THEN Unavailable(cache, 0)
    ELSE IF r1.kind # "ok" THEN Unavailable(cache, 1)
    ELSE IF r2.kind \in {"exception", "malformed"} THEN Unavailable(cache, 2)
    ELSE LET all == IF r2.kind = "ok" THEN r1.result \o r2.result ELSE r1.result
         IN  [none |-> FALSE, txs |-> all,
              cache |-> [a \in DOMAIN cache \cup {address} |->
                            IF a = address THEN all ELSE cache[a]],
              requests |-> 2, hit |-> FALSE]

\* The mixer set looked up without lower-casing the addresses
IsMixerTxExact(tx) ==
    \/ tx.from \in KNOWN_MIXER_ADDRESSES
    \/ (tx.to # "" /\ tx.to \in KNOWN_MIXER_ADDRESSES)

\* _check_mixer_interaction
IsMixerTx(tx) ==
    \/ Lower(tx.from) \in KNOWN_MIXER_ADDRESSES
    \/ (tx.to # "" /\ Lower(tx.to) \in KNOWN_MIXER_ADDRESSES)

\* The tiers with their lower bounds included (>= 50, >= 20, >= 5)
MixerRiskOfInclusive(mixer_value, total_value) ==
    IF mixer_value * 100 >= 50 * total_value THEN UNIT
    ELSE IF mixer_value * 100 >= 20 * total_value THEN Tenths(8)
    ELSE IF mixer_value * 100 >= 5 * total_value THEN Tenths(6)
    ELSE Tenths(4)

MixerRiskOf(mixer_value, total_value) ==
    IF mixer_value * 100 > 50 * total_value THEN UNIT
    ELSE IF mixer_value * 100 > 20 * total_value THEN Tenths(8)
    ELSE IF mixer_value * 100 > 5 * total_value THEN Tenths(6)
    ELSE Tenths(4)

\* float(raw_value) / 1e18; a ValueError leaves the totals alone and value = 0
ParsedValue(tx) == IF tx.value_numeric THEN tx.value ELSE 0

CheckMixerInteraction(txs) ==
    LET mixer_txs == SelectSeq(txs, IsMixerTx)
        mixer_value == SumSeq([i \in 1..Len(mixer_txs) |-> ParsedValue(mixer_txs[i])])
        total_value == SumSeq([i \in 1..Len(txs) |-> ParsedValue(txs[i])])
    IN  IF total_value > 0 /\ mixer_value > 0
        THEN [risk |-> MixerRiskOf(mixer_value, total_value),
              alerts |-> <<Alert("Crypto: {}% from/to mixer ({} transactions)", <<>>,
                                 <<RoundDiv(mixer_value * 1000, total_value),
                                   Len(mixer_txs)>>)>>]
        ELSE [risk |-> 0, alerts |-> <<>>]

\* df.sort_values('timeStamp'): ascending, equal stamps keep their order
RECURSIVE InsertByTime(_, _)
InsertByTime(tx, sorted) ==
    IF sorted = <<>> THEN <<tx>>
    ELSE IF tx.timeStamp < Head(sorted).timeStamp THEN <<tx>> \o sorted
    ELSE <<Head(sorted)>> \o InsertByTime(tx, Tail(sorted))

RECURSIVE SortByTime(_)
SortByTime(txs) ==
    IF txs = <<>> THEN <<>>
    ELSE InsertByTime(txs[Len(txs)], SortByTime(SubSeq(txs, 1, Len(txs) - 1)))

SECONDS_PER_DAY == 60 * 60 * 24

\* _analyze_transaction_patterns, on records whose fields pandas converts
AccountAgeRule(txs) ==
    LET stamps == {txs[i].timeStamp : i \in 1..Len(txs)}
        newest == CHOOSE t \in stamps : \A u \in stamps : u <= t
        oldest == CHOOSE t \in stamps : \A u \in stamps : t <= u
    IN  IF newest - oldest < SECONDS_PER_DAY
        THEN [risk |-> Tenths(7),
              alerts |-> <<Alert("New account: less than 1 day old", <<>>, <<>>)>>]
        ELSE IF newest - oldest < 7 * SECONDS_PER_DAY
        THEN [risk |-> Tenths(4),
              alerts |-> <<Alert("New account: less than 7 days old", <<>>, <<>>)>>]
        ELSE [risk |-> 0, alerts |-> <<>>]

SingleTransactionRule(txs) ==
    IF Len(txs) = 1
    THEN [risk |-> Tenths(3), alerts |-> <<Alert("Single transaction history", <<>>, <<>>)>>]
    ELSE [risk |-> 0, alerts |-> <<>>]

DecreasingCount(values) ==
    Cardinality({i \in 1..(Len(values) - 1) : values[i] > values[i + 1]})

PeelingChainRule(txs) ==
    LET sorted == SortByTime(txs)
        values == [i \in 1..Len(sorted) |-> sorted[i].value]
        decreasing_count == DecreasingCount(values)
    IN  IF Len(txs) >= 3 /\ decreasing_count >= 2 /\ 2 * decreasing_count > Len(values)
        THEN [risk |-> Tenths(6),
              alerts |-> <<Alert("Possible peeling chain detected (decreasing transaction values)",
                                 <<>>, <<>>)>>]
        ELSE [risk |-> 0, alerts |-> <<>>]

\* The except branch: one alert (in Russian in the source: "the full analysis of
\* the transactions could not be done: {error}") after what the rules before the
\* error produced, and the risk brought to 0.3 at least
\* The except branch starting again from nothing
PatternErrorReset(before) ==
    [risk |-> Tenths(3),
     alerts |-> <<Alert("Could not complete the full transaction analysis: {}", <<>>, <<>>)>>]

PatternError(before) ==
    [risk |-> Max2(before.risk, Tenths(3)),
     alerts |-> before.alerts \o <<Alert("Could not complete the full transaction analysis: {}",
                                         <<>>, <<>>)>>]

\* pd.to_numeric raises on the timeStamp column before any rule, and on the value
\* column once the first two rules have run and the list has three records
AnalyzeTransactionPatterns(txs) ==
    IF txs = <<>> THEN [risk |-> 0, alerts |-> <<>>]
    ELSE IF \E i \in 1..Len(txs) : ~txs[i].stamp_numeric
    THEN PatternError([risk |-> 0, alerts |-> <<>>])
    ELSE LET age == AccountAgeRule(txs)
             single == SingleTransactionRule(txs)
             peel == PeelingChainRule(txs)
             before == [risk |-> Max2(age.risk, single.risk),
                        alerts |-> age.alerts \o single.alerts]
         IN  IF Len(txs) >= 3 /\ \E i \in 1..Len(txs) : ~txs[i].value_numeric
             THEN PatternError(before)
             ELSE [risk |-> Max2(before.risk, peel.risk),
                   alerts |-> before.alerts \o peel.alerts]

\* the no-history alert without the currency branch
NoHistoryAlertPlain(currency) == Alert("No Ethereum transaction history found", <<>>, <<>>)

NoHistoryAlert(currency) ==
    IF currency # "ETH"
    THEN Alert("No Ethereum transaction history found for this {} address", <<currency>>, <<>>)
    ELSE Alert("No Ethereum transaction history found", <<>>, <<>>)

\* the sub-scores added up instead of the maximum taken
TakeRiskSum(risk_score, sub) == IF sub.alerts # <<>> THEN risk_score + sub.risk ELSE risk_score

\* risk_score = max(risk_score, sub_risk), applied when the sub-check has alerts
TakeRisk(risk_score, sub) == IF sub.alerts # <<>> THEN Max2(risk_score, sub.risk) ELSE risk_score

NoSub == [risk |-> 0, alerts |-> <<>>]

\* analyze.  Answers the (score, alerts) pair or that it raised, the sub-results it
\* was computed from, and the cache and request count the lookup leaves.
CryptoAnalyze(tx, cache, r1, r2) ==
    LET valid == CryptoValidateTransaction(tx)
        known == CheckKnownRiskyAddress(tx.address)
        lookup == GetAddressTransactions(cache, tx.address, tx.currency, r1, r2)
        history == ~lookup.none /\ lookup.txs # <<>>
        mixer == IF history THEN CheckMixerInteraction(lookup.txs) ELSE NoSub
        pattern == IF history THEN AnalyzeTransactionPatterns(lookup.txs) ELSE NoSub
        risk1 == TakeRisk(0, known)
        risk2 == TakeRisk(risk1, mixer)
        risk3 == TakeRisk(risk2, pattern)
    IN  IF valid = "raise"
        THEN [raised |-> TRUE, score |-> 0, alerts |-> <<>>, path |-> "raised",
              known |-> NoSub, mixer |-> NoSub, pattern |-> NoSub,
              lookup |-> Unavailable(cache, 0)]
        ELSE IF valid = "invalid"
        THEN [raised |-> FALSE, score |-> Tenths(8),
              alerts |-> <<Alert("Invalid crypto transaction data", <<>>, <<>>)>>,
              path |-> "invalid", known |-> NoSub, mixer |-> NoSub, pattern |-> NoSub,
              lookup |-> Unavailable(cache, 0)]
        ELSE IF history
        THEN [raised |-> FALSE, score |-> risk3,
              alerts |-> known.alerts \o mixer.alerts \o pattern.alerts,
              path |-> "history", known |-> known, mixer |-> mixer, pattern |-> pattern,
              lookup |-> lookup]
        ELSE [raised |-> FALSE, score |-> Max2(risk1, Tenths(4)),
              alerts |-> known.alerts \o <<NoHistoryAlert(tx.currency)>>,
              path |-> "no_history", known |-> known, mixer |-> NoSub, pattern |-> NoSub,
              lookup |-> lookup]

---------------------------------------------------------------------------
(* usdc_analyzer.py *)

\* calculate_usdc_risk: a transfer is risky when its sender or receiver, in lower
\* case, is a key of RISKY_ADDRESSES_WITH_SCORES
IsRiskyTransfer(tx) == Lower(tx.from) \in RISKY_ADDRESSES \/ Lower(tx.to) \in RISKY_ADDRESSES

\* The share returned from 10% on instead of above 10%
CalculateUsdcRiskInclusive(txs) ==
    LET total == Len(txs)
        risky == Len(SelectSeq(txs, IsRiskyTransfer))
    IN  IF txs = <<>> THEN 0
        ELSE IF risky * 100 >= 10 * total THEN Min2((risky * UNIT) \div total, UNIT)
        ELSE 0

CalculateUsdcRisk(txs) ==
    LET total == Len(txs)
        risky == Len(SelectSeq(txs, IsRiskyTransfer))
    IN  IF txs = <<>> THEN 0
        ELSE IF risky * 100 > 10 * total THEN Min2((risky * UNIT) \div total, UNIT)
        ELSE 0

\* get_usdc_transactions: the tokentx request comes to r; None is the empty list here
GetUsdcTransactions(r) == IF r.kind = "ok" THEN r.result ELSE <<>>

\* analyze_usdc_erc20_transactions(address, key); has_key: a key is configured
AnalyzeUsdcErc20Transactions(has_key, r) ==
    IF ~has_key THEN 0
    ELSE CalculateUsdcRisk(GetUsdcTransactions(r))

---------------------------------------------------------------------------
(* risk_scoring.py: RiskScorer *)

\* The weights _calculate_combined_risk_with_usdc applies in each of its branches,
\* as numerators over den; w is USDC_WEIGHT in percent
CombineWeights(has_fiat, has_crypto, has_usdc, w) ==
    IF has_fiat /\ has_crypto /\ has_usdc
    THEN [fiat |-> FIAT_WEIGHT, crypto |-> CRYPTO_WEIGHT, usdc |-> w, den |-> 100]
    ELSE IF has_fiat /\ has_crypto
    THEN [fiat |-> FIAT_WEIGHT, crypto |-> CRYPTO_WEIGHT, usdc |-> 0,
          den |-> FIAT_WEIGHT + CRYPTO_WEIGHT]
    ELSE IF has_fiat /\ has_usdc
    THEN [fiat |-> FIAT_WEIGHT, crypto |-> 0, usdc |-> w, den |-> FIAT_WEIGHT + w]
    ELSE IF has_crypto /\ has_usdc
    THEN [fiat |-> 0, crypto |-> CRYPTO_WEIGHT, usdc |-> w, den |-> CRYPTO_WEIGHT + w]
    ELSE IF has_fiat THEN [fiat |-> 1, crypto |-> 0, usdc |-> 0, den |-> 1]
    ELSE IF has_crypto THEN [fiat |-> 0, crypto |-> 1, usdc |-> 0, den |-> 1]
    ELSE IF has_usdc THEN [fiat |-> 0, crypto |-> 0, usdc |-> 1, den |-> 1]
    ELSE [fiat |-> 0, crypto |-> 0, usdc |-> 0, den |-> 1]

\* _calculate_combined_risk_with_usdc: the combined risk as the fraction num / den
CalculateCombinedRiskWithUsdc(fiat_risk, crypto_risk, usdc_risk, has_fiat, has_crypto, has_usdc, w) ==
    LET cw == CombineWeights(has_fiat, has_crypto, has_usdc, w)
    IN  [num |-> fiat_risk * cw.fiat + crypto_risk * cw.crypto + usdc_risk * cw.usdc,
         den |-> cw.den]

\* normalized_risk = round(combined_risk * 100, 2), in hundredths
NormalizedRisk(combined) == RoundDiv(combined.num, combined.den * HUNDREDTH)

\* The alerts left without their prefix
Unprefixed(channel, alerts) == alerts

\* [f"Fiat: {alert}" for alert in alerts]
Prefixed(channel, alerts) == [i \in 1..Len(alerts) |-> [alerts[i] EXCEPT !.channel = channel]]

NoChannel == [present |-> FALSE, score |-> 0, alerts |-> <<>>]

ChannelEntry(score, alerts) == [present |-> TRUE, score |-> Round2(score), alerts |-> alerts]

FiatAbsent == [raised |-> FALSE, score |-> 0, alerts |-> <<>>, path |-> "absent",
               rule_score |-> 0, model_score |-> 0]

CryptoAbsent(cache) ==
    [raised |-> FALSE, score |-> 0, alerts |-> <<>>, path |-> "absent",
     known |-> NoSub, mixer |-> NoSub, pattern |-> NoSub, lookup |-> Unavailable(cache, 0)]

\* The USDC analysis runs for a crypto component whose currency is 'USDC' and
\* whose address is truthy
RunsUsdcAnalysis(crypto) ==
    /\ crypto.present
    /\ "currency" \in crypto.keys /\ crypto.currency = "USDC"
    /\ "address" \in crypto.keys /\ crypto.address # ""

UsdcAlerts(usdc_risk_score) ==
    IF usdc_risk_score > 0
    THEN <<Alert("USDC transactions linked to risky addresses: {}%", <<>>,
                 <<RoundDiv(usdc_risk_score * 1000, UNIT)>>)>>
    ELSE <<>>

\* has_usdc_analysis is set inside "if usdc_risk_score > 0" (lines 102-104)
HasUsdcAnalysis(runs_usdc, usdc_risk_score) == runs_usdc /\ usdc_risk_score > 0

\* analyze_transaction.  env: what the collaborators answer during this call.
AnalyzeTransaction(event, trained, m, data, numeric_dummies, cache, w, env) ==
    LET fiat == IF event.fiat.present
                THEN FiatAnalyze(event.fiat, trained, m, data, numeric_dummies,
                                 env.ip_country, env.decision)
                ELSE FiatAbsent
        crypto == IF event.crypto.present
                  THEN CryptoAnalyze(event.crypto, cache, env.txlist, env.txlistinternal)
                  ELSE CryptoAbsent(cache)
        runs_usdc == RunsUsdcAnalysis(event.crypto)
        usdc_score == IF runs_usdc
                      THEN AnalyzeUsdcErc20Transactions(env.has_key, env.tokentx) ELSE 0
        usdc_alerts == UsdcAlerts(usdc_score)
        has_usdc == HasUsdcAnalysis(runs_usdc, usdc_score)
        combined == CalculateCombinedRiskWithUsdc(fiat.score, crypto.score, usdc_score,
                        event.fiat.present, event.crypto.present, has_usdc, w)
        normalized == NormalizedRisk(combined)
    IN  IF fiat.raised
        THEN [raised |-> TRUE, risk_score |-> 0, risk_level |-> "Unknown", alerts |-> <<>>,
              fiat_risk |-> NoChannel, crypto_risk |-> NoChannel, usdc_risk |-> NoChannel,
              fiat |-> fiat, crypto |-> CryptoAbsent(cache), usdc_score |-> 0,
              has_usdc |-> FALSE, cache |-> cache]
        ELSE IF crypto.raised
        THEN [raised |-> TRUE, risk_score |-> 0, risk_level |-> "Unknown", alerts |-> <<>>,
              fiat_risk |-> NoChannel, crypto_risk |-> NoChannel, usdc_risk |-> NoChannel,
              fiat |-> fiat, crypto |-> crypto, usdc_score |-> 0,
              has_usdc |-> FALSE, cache |-> cache]
        ELSE [raised |-> FALSE, risk_score |-> normalized,
              risk_level |-> GetRiskLevel(normalized),
              alerts |-> Prefixed("Fiat", fiat.alerts) \o Prefixed("Crypto", crypto.alerts)
                         \o Prefixed("USDC", usdc_alerts),
              fiat_risk |-> IF event.fiat.present THEN ChannelEntry(fiat.score, fiat.alerts)
                            ELSE NoChannel,
              crypto_risk |-> IF event.crypto.present
                              THEN ChannelEntry(crypto.score, crypto.alerts) ELSE NoChannel,
              usdc_risk |-> IF runs_usdc THEN ChannelEntry(usdc_score, usdc_alerts)
                            ELSE NoChannel,
              fiat |-> fiat, crypto |-> crypto, usdc_score |-> usdc_score,
              has_usdc |-> has_usdc, cache |-> crypto.lookup.cache]

---------------------------------------------------------------------------
(* EtherscanRateLimiter (crypto_analyzer.py, and its twin in usdc_analyzer.py). *)
(* Time is counted in ticks.  wait_if_needed reads last_request_time only to    *)
(* compare time.time() - last_request_time with the interval, so the limiter    *)
(* holds that difference, saturating at the interval.                           *)

TICKS_PER_SECOND == 5

ETHERSCAN_RATE_LIMIT == 5

\* 1.0 / self.requests_per_second
MinInterval(requests_per_second) == TICKS_PER_SECOND \div requests_per_second

\* __init__: last_request_time = 0, the epoch, long ago
NewRateLimiter ==
    [requests_per_second |-> ETHERSCAN_RATE_LIMIT,
     since_last_request |-> MinInterval(ETHERSCAN_RATE_LIMIT)]

\* lines 22-27: how long wait_if_needed decides to sleep
WaitTime(limiter) ==
    IF limiter.since_last_request < MinInterval(limiter.requests_per_second)
    THEN MinInterval(limiter.requests_per_second) - limiter.since_last_request
    ELSE 0

\* line 31: self.last_request_time = time.time()
Stamped(limiter) == [limiter EXCEPT !.since_last_request = 0]

\* The limiter as time passes
Aged(limiter, ticks) ==
    [limiter EXCEPT !.since_last_request =
        Min2(limiter.since_last_request + ticks, MinInterval(limiter.requests_per_second))]

---------------------------------------------------------------------------
(* The inputs of the model *)

DAY == SECONDS_PER_DAY

\* Values USDC_WEIGHT may be given (percent)
UsdcWeights == {0, 20}

\* Training frames: none, one row, two rows that differ in every category
DataOne == <<Row(50, "EUR", "DE", "DE")>>

DataTwo == <<Row(50, "EUR", "DE", "DE"), Row(5000, "USD", "US", "NG")>>

TrainSets == {<<>>, DataOne, DataTwo}

\* Decision values of the forest, in [-1, 1] * UNIT: 1 and -1 are the ends of the
\* range (risk 0 and 1), the others put a fiat-only score next to a tier threshold
Decisions == {UNIT, 85920, 85740, 0, -428400, -599760, -UNIT}

FiatClean == FiatLeg(50, "EUR", "DE", "DE")

FiatGeoGrey == FiatLeg(5000, "USD", "US", "NG")

FiatAllRules == FiatLeg(20000, "USD", "NG", "US")

FiatIp == FiatLeg(50, "USD", "US", "8.8.8.8")

FiatTextAmount == FiatTx(FiatFields, 0, FALSE, "USD", "US", "US", TRUE)

FiatNoGeo == FiatTx(FiatFields \ {"geo_ip"}, 50, TRUE, "USD", "US", "", TRUE)

FiatGeoNotString == FiatTx(FiatFields, 50, TRUE, "USD", "US", "", FALSE)

HistoryOld == <<LedgerTx("0xbeef", "0x742d", 100, 8 * DAY), LedgerTx("0x742d", "0xbeef", 50, 0)>>

HistoryMixer == <<LedgerTx("0xbeef", "0x742d", 40, 30 * DAY), LedgerTx("0xD90E", "0x742d", 60, 0)>>

HistoryNew == <<LedgerTx("0xbeef", "0x742d", 10, 100)>>

InternalOne == <<LedgerTx("0x8589", "0x742d", 5, 9 * DAY)>>

\* with HistoryMixer: four records whose values in time order are 60, 50, 40, 45
InternalPeel == <<LedgerTx("0xbeef", "0x742d", 50, DAY), LedgerTx("0xbeef", "0x742d", 45, 31 * DAY)>>

\* a single record whose timeStamp is not a number
HistoryNoStamp == <<NonNumericStamp(LedgerTx("0xbeef", "0x742d", 10, 0))>>

\* a transfer from a mixer whose value is not a number, and an ordinary one
InternalBad == <<NonNumericValue(LedgerTx("0x8589", "0x742d", 0, 200)), LedgerTx("0xbeef", "0x742d", 0, 300)>>

TransfersRisky == <<LedgerTx("0x1446", "0x742d", 10, 0), LedgerTx("0xbeef", "0x742d", 10, 5)>>

TransfersClean == <<LedgerTx("0xbeef", "0x742d", 10, 0)>>

Failed(kind) == Response(kind, <<>>)

Ok(result) == Response("ok", result)

EmptyCache == [a \in {} |-> <<>>]

NoEnv == [ip_country |-> "", decision |-> 0, txlist |-> Failed("http"),
          txlistinternal |-> Failed("http"), has_key |-> FALSE, tokentx |-> Failed("http")]

NoEvent == [fiat |-> NoFiat, crypto |-> NoCrypto]

\* No call in progress: the specifications that run one call at a time
NoThreads == <<>>

NoCall == [op |-> "none", data |-> <<>>, event |-> NoEvent, env |-> NoEnv]

NoResult(cache) == AnalyzeTransaction(NoEvent, FALSE, UnfittedModel, <<>>, FALSE, cache, 0, NoEnv)

\* The answers of the collaborators a call can depend on: the geo-IP lookup only for
\* an IP literal, the forest only once trained, the ledger only on a cache miss
IpCountries(fiat) == IF fiat.present /\ IsValidIp(fiat.geo_ip) THEN {"", "US", "NG"} ELSE {""}

DecisionsFor(fiat, trained) == IF fiat.present /\ trained THEN Decisions ELSE {0}

LedgerFor(crypto, cache, responses) ==
    IF crypto.present /\ crypto.address \notin DOMAIN cache THEN responses ELSE {Failed("http")}

\* the txlistinternal request is sent only after a good txlist answer
InternalFor(crypto, cache, r1, responses) ==
    IF r1.kind = "ok" THEN LedgerFor(crypto, cache, responses) ELSE {Failed("http")}

TokenFor(crypto, responses) ==
    IF RunsUsdcAnalysis(crypto) THEN ({TRUE} \X responses) \cup {<<FALSE, Failed("http")>>}
    ELSE {<<FALSE, Failed("http")>>}

---------------------------------------------------------------------------
(* Spec: the scorer, one call at a time *)

ScorerFiatLegs == {NoFiat, FiatClean, FiatGeoGrey, FiatAllRules, FiatTextAmount}

ScorerCryptoLegs == {NoCrypto, CryptoLeg("0x742d", "ETH"), CryptoLeg("0x3cbd", "USDC")}

ScorerTrainSets == {<<>>, DataOne}

ScorerTxlist == {Ok(HistoryOld), Failed("http")}

ScorerInternal == {Failed("api")}

ScorerTokentx == {Ok(TransfersRisky), Ok(TransfersClean), Failed("api")}

Init ==
    /\ usdc_weight \in UsdcWeights
    /\ dummies_numeric = FALSE
    /\ is_trained = FALSE
    /\ training_data = <<>>
    /\ model = UnfittedModel
    /\ address_cache = EmptyCache
    /\ rate_limiter = NewRateLimiter
    /\ call = NoCall
    /\ ret = NoResult(EmptyCache)
    /\ inflight = NoThreads

\* RiskScorer.train_models(data) -> FiatTransactionAnalyzer.train(data)
Train(data) ==
    /\ IF data = <<>>
       THEN UNCHANGED <<model, is_trained, training_data>>
       ELSE /\ model' = FittedModel(data)
            /\ is_trained' = TRUE
            /\ training_data' = data
    /\ call' = [NoCall EXCEPT !.op = "train", !.data = data]
    /\ ret' = NoResult(address_cache)
    /\ UNCHANGED <<usdc_weight, dummies_numeric, rate_limiter, address_cache, inflight>>

\* RiskScorer.analyze_transaction(event)
Analyze(event, env) ==
    /\ ret' = AnalyzeTransaction(event, is_trained, model, training_data, dummies_numeric,
                                 address_cache, usdc_weight, env)
    /\ address_cache' = ret'.cache
    /\ rate_limiter' = IF ret'.crypto.lookup.requests > 0
                       THEN Stamped(rate_limiter) ELSE rate_limiter
    /\ call' = [NoCall EXCEPT !.op = "analyze", !.event = event, !.env = env]
    /\ UNCHANGED <<usdc_weight, dummies_numeric, model, is_trained, training_data, inflight>>

TrainStep == \E data \in ScorerTrainSets : Train(data)

AnalyzeStep ==
    \E fiat \in ScorerFiatLegs, crypto \in ScorerCryptoLegs :
      \E ip \in IpCountries(fiat), d \in DecisionsFor(fiat, is_trained),
         r1 \in LedgerFor(crypto, address_cache, ScorerTxlist),
         tok \in TokenFor(crypto, ScorerTokentx) :
       \E r2 \in InternalFor(crypto, address_cache, r1, ScorerInternal) :
        Analyze([fiat |-> fiat, crypto |-> crypto],
                [ip_country |-> ip, decision |-> d, txlist |-> r1, txlistinternal |-> r2,
                 has_key |-> tok[1], tokentx |-> tok[2]])

Next == TrainStep \/ AnalyzeStep

Spec == Init /\ [][Next]_vars

---------------------------------------------------------------------------
(* Claims about the scorer, checked under Spec *)

Returned == call.op = "analyze" /\ ~ret.raised

\* C1: the tier of a combined score is Low below 30, Medium from 30 to below 70,
\* High from 70 to below 90 and Critical from 90 on (so 29.99 is Low, 30.00 and
\* 69.99 are Medium, 90.00 is Critical), and every result analyze_transaction
\* returns carries the tier of its own risk_score, never "Unknown".
C1_TierOfOwnScore ==
    /\ GetRiskLevel(2999) = "Low" /\ GetRiskLevel(3000) = "Medium"
    /\ GetRiskLevel(6999) = "Medium" /\ GetRiskLevel(7000) = "High"
    /\ GetRiskLevel(8999) = "High" /\ GetRiskLevel(9000) = "Critical"
    /\ Returned =>
         /\ ret.risk_level # "Unknown"
         /\ ret.risk_level = "Low" <=> ret.risk_score < 3000
         /\ ret.risk_level = "Medium" <=> (3000 <= ret.risk_score /\ ret.risk_score < 7000)
         /\ ret.risk_level = "High" <=> (7000 <= ret.risk_score /\ ret.risk_score < 9000)
         /\ ret.risk_level = "Critical" <=> ret.risk_score >= 9000

\* C1 witness: a call returns the boundary score 30.00, classified Medium
C1_Witness == Returned /\ ret.risk_score = 3000 /\ ret.risk_level = "Medium"

\* C2: the fiat, crypto and stablecoin weights sum to 1.0 and the weights applied
\* to the channels present in a call sum to 1.0; with only a fiat leg the
\* risk_score is round(fiat score * 100, 2).
C2_WeightsSumToOne ==
    (Returned /\ (call.event.fiat.present \/ call.event.crypto.present)) =>
        LET cw == CombineWeights(call.event.fiat.present, call.event.crypto.present,
                                 ret.has_usdc, usdc_weight)
        IN  /\ cw.fiat + cw.crypto + cw.usdc = cw.den
            /\ (call.event.fiat.present /\ ~call.event.crypto.present)
                  => ret.risk_score = Round2(ret.fiat.score)

\* The score the three-channel design gives a call: the weights of the channels
\* present, renormalised to sum to 1 (stablecoin present whenever its analysis ran)
RenormalisedScore(f, c, u, has_fiat, has_crypto, has_usdc, w) ==
    LET num == (IF has_fiat THEN FIAT_WEIGHT * f ELSE 0)
               + (IF has_crypto THEN CRYPTO_WEIGHT * c ELSE 0)
               + (IF has_usdc THEN w * u ELSE 0)
        den == (IF has_fiat THEN FIAT_WEIGHT ELSE 0)
               + (IF has_crypto THEN CRYPTO_WEIGHT ELSE 0)
               + (IF has_usdc THEN w ELSE 0)
    IN  IF den = 0 THEN 0 ELSE RoundDiv(num, den * HUNDREDTH)

\* C3: the stablecoin analysis runs exactly for a crypto leg in USDC, and whenever
\* the result reports it (usdc_risk non-null, also with score 0) the risk_score is
\* the weighted sum over the present channels with the stablecoin weight included.
C3_UsdcCountedWhenReported ==
    Returned =>
        /\ ret.usdc_risk.present <=>
              (call.event.crypto.present /\ call.event.crypto.currency = "USDC")
        /\ ret.usdc_risk.present =>
              ret.risk_score = RenormalisedScore(ret.fiat.score, ret.crypto.score,
                                                 ret.usdc_score, call.event.fiat.present,
                                                 call.event.crypto.present, TRUE, usdc_weight)

\* C4: analyze_transaction never raises: every call returns a result.
C4_NeverRaises == call.op = "analyze" => ~ret.raised

\* C5: every channel score of a returned result lies in [0,1] and the combined
\* risk_score in [0,100].
C5_ScoresInRange ==
    Returned =>
        /\ 0 <= ret.fiat.score /\ ret.fiat.score <= UNIT
        /\ 0 <= ret.crypto.score /\ ret.crypto.score <= UNIT
        /\ 0 <= ret.usdc_score /\ ret.usdc_score <= UNIT
        /\ 0 <= ret.risk_score /\ ret.risk_score <= 10000

---------------------------------------------------------------------------
(* SpecFiat: the fiat analyzer's life cycle, driven through the scorer with   *)
(* fiat-only events, every training frame and both kinds of one-hot columns   *)

FiatOnlyLegs == {FiatClean, FiatGeoGrey, FiatAllRules, FiatIp, FiatTextAmount, FiatNoGeo,
                 FiatGeoNotString, FiatLeg(5000, "USD", "US", "ng")}

InitFiat ==
    /\ usdc_weight \in UsdcWeights
    /\ dummies_numeric \in BOOLEAN
    /\ is_trained = FALSE
    /\ training_data = <<>>
    /\ model = UnfittedModel
    /\ address_cache = EmptyCache
    /\ rate_limiter = NewRateLimiter
    /\ call = NoCall
    /\ ret = NoResult(EmptyCache)
    /\ inflight = NoThreads

TrainFiatStep == \E data \in TrainSets : Train(data)

AnalyzeFiatStep ==
    \E fiat \in FiatOnlyLegs :
      \E ip \in IpCountries(fiat), d \in DecisionsFor(fiat, is_trained) :
        Analyze([fiat |-> fiat, crypto |-> NoCrypto],
                [NoEnv EXCEPT !.ip_country = ip, !.decision = d])

NextFiat == TrainFiatStep \/ AnalyzeFiatStep

SpecFiat == InitFiat /\ [][NextFiat]_vars

\* A fiat leg was analyzed, passed validation and a result came back
FiatScored ==
    /\ Returned
    /\ call.event.fiat.present
    /\ FiatFields \subseteq call.event.fiat.keys

\* C8: the analyzer starts Untrained; train with non-empty data makes it Trained;
\* train with empty data changes neither the flag, the model nor the stored data;
\* no step takes it from Trained back to Untrained; and a scored leg gets the rule
\* score alone when Untrained and 0.7 * model score + 0.3 * rule score when Trained.
C8_TwoStateMachine ==
    /\ ~is_trained /\ model = UnfittedModel
    /\ [][/\ is_trained => is_trained'
          /\ (call'.op = "train" /\ call'.data # <<>>)
                => (is_trained' /\ model' = FittedModel(call'.data))
          /\ (call'.op = "train" /\ call'.data = <<>>)
                => UNCHANGED <<is_trained, model, training_data>>
          /\ call'.op = "analyze" => UNCHANGED <<is_trained, model, training_data>>]_vars
    /\ [](FiatScored =>
            LET rule == RuleBasedAnalysis(call.event.fiat, call.env.ip_country).score
                mdl == (UNIT \div 2) - (call.env.decision \div 2)
            IN  ret.fiat.score = IF is_trained THEN (7 * mdl + 3 * rule) \div 10 ELSE rule)

\* C8 witness: a Trained analyzer blended a model score of 1.0 with a rule score of 0
C8_Witness ==
    /\ FiatScored /\ is_trained
    /\ call.event.fiat = FiatClean /\ call.env.decision = -UNIT
    /\ ret.fiat.score = Tenths(7)

---------------------------------------------------------------------------
(* SpecCrypto: the crypto analyzer and its ledger client, driven through the  *)
(* scorer with crypto-only events and every kind of ledger response           *)

CryptoOnlyLegs ==
    {CryptoLeg("0x742d", "ETH"), CryptoLeg("0x742d", "BTC"), CryptoLeg("0xD90E", "ETH"),
     CryptoLeg("0x3cbd", "ETH"), CryptoLeg("0x9cbt", "ETH"),
     CryptoTx(CryptoFields, "", FALSE, "ETH", "pos"),
     CryptoTx(CryptoFields, "0x742d", TRUE, "ETH", "text"),
     CryptoTx(CryptoFields, "0x742d", TRUE, "ETH", "zero")}

FailureKinds == {"http", "api", "malformed", "exception"}

CryptoTxlist == {Ok(HistoryMixer), Ok(HistoryNew)} \cup {Failed(k) : k \in FailureKinds}

CryptoInternal == {Ok(InternalOne)} \cup {Failed(k) : k \in FailureKinds}

InitCrypto ==
    /\ usdc_weight \in UsdcWeights
    /\ dummies_numeric = FALSE
    /\ is_trained = FALSE
    /\ training_data = <<>>
    /\ model = UnfittedModel
    /\ address_cache = EmptyCache
    /\ rate_limiter = NewRateLimiter
    /\ call = NoCall
    /\ ret = NoResult(EmptyCache)
    /\ inflight = NoThreads

AnalyzeCryptoStep ==
    \E crypto \in CryptoOnlyLegs :
      \E r1 \in LedgerFor(crypto, address_cache, CryptoTxlist) :
       \E r2 \in InternalFor(crypto, address_cache, r1, CryptoInternal) :
        Analyze([fiat |-> NoFiat, crypto |-> crypto],
                [NoEnv EXCEPT !.txlist = r1, !.txlistinternal = r2])

NextCrypto == AnalyzeCryptoStep

SpecCrypto == InitCrypto /\ [][NextCrypto]_vars

\* A crypto leg that satisfies the CryptoLeg shape (all keys, a hexadecimal address,
\* an amount float() parses) was analyzed and a result came back
CryptoScored ==
    /\ Returned
    /\ call.event.crypto.present
    /\ CryptoFields \subseteq call.event.crypto.keys
    /\ call.event.crypto.addr_is_str
    /\ IsValidEthAddress(call.event.crypto.address)
    /\ call.event.crypto.amount_kind # "text"

\* C6: the crypto score is the maximum of the triggered sub-scores (direct hit,
\* mixer interaction, pattern, or 0.4 for no history); a darknet address scores
\* exactly 1.0 whatever the history, a mixer address exactly 0.9 when the lookup
\* returned None; the alerts are those of the direct hit, then the mixer
\* interaction, then the pattern rules or the no-history alert.
C6_MaxOfSubScores ==
    CryptoScored =>
        LET c == ret.crypto
            leg == call.event.crypto
            history == ~c.lookup.none /\ c.lookup.txs # <<>>
            known == CheckKnownRiskyAddress(leg.address)
            mixer == IF history THEN CheckMixerInteraction(c.lookup.txs) ELSE NoSub
            pattern == IF history THEN AnalyzeTransactionPatterns(c.lookup.txs) ELSE NoSub
            triggered == {x.risk : x \in {y \in {known, mixer, pattern} : y.alerts # <<>>}}
                         \cup (IF history THEN {0} ELSE {0, Tenths(4)})
        IN  /\ c.score \in triggered /\ \A x \in triggered : x <= c.score
            /\ Lower(leg.address) \in KNOWN_DARKNET_ADDRESSES => c.score = UNIT
            /\ (Lower(leg.address) \in KNOWN_MIXER_ADDRESSES /\ c.lookup.none)
                  => c.score = Tenths(9)
            /\ c.alerts = known.alerts \o mixer.alerts \o pattern.alerts
                          \o (IF history THEN <<>> ELSE <<NoHistoryAlert(leg.currency)>>)

\* C6 witness: a mixer address whose fetched history triggers pattern rules (0.7)
\* keeps the direct-hit score 0.9, with the direct-hit alert first
C6_Witness ==
    /\ CryptoScored
    /\ call.event.crypto.address = "0xD90E"
    /\ ~ret.crypto.lookup.none
    /\ ret.crypto.pattern.risk = Tenths(7)
    /\ ret.crypto.score = Tenths(9)
    /\ Len(ret.crypto.alerts) = 3
    /\ ret.crypto.alerts[1].text = "Address is a known mixer: {}"

\* The requests of a lookup that missed the cache
LookupSent == CryptoScored /\ ~ret.crypto.lookup.hit

CleanAddress == Lower(call.event.crypto.address) \notin RISKY_ADDRESSES

ExactlyNoHistory ==
    /\ ret.crypto.score = Tenths(4)
    /\ ret.crypto.alerts =
          <<IF call.event.crypto.currency = "ETH"
            THEN Alert("No Ethereum transaction history found", <<>>, <<>>)
            ELSE Alert("No Ethereum transaction history found for this {} address",
                       <<call.event.crypto.currency>>, <<>>)>>

---------------------------------------------------------------------------
(* SpecConc: train on one thread while another thread analyzes fiat-only      *)
(* events.  Neither method takes a lock, so each read and write of the        *)
(* analyzer's fields is a step of its own.  fit() updates the estimator in    *)
(* place; the model takes the kindest view of it, one step.                   *)

ConcTrainSets == {DataOne, DataTwo}

ConcFiatLegs == {FiatClean, FiatGeoGrey}

ConcDecisions == {0, -UNIT}

IdleTrain == [pc |-> "idle", data |-> <<>>]

IdleAnalyze == [pc |-> "idle", event |-> NoEvent, env |-> NoEnv, trained |-> FALSE,
                data |-> <<>>, model |-> UnfittedModel]

InitConc ==
    /\ usdc_weight \in UsdcWeights
    /\ dummies_numeric \in BOOLEAN
    /\ is_trained = FALSE
    /\ training_data = <<>>
    /\ model = UnfittedModel
    /\ address_cache = EmptyCache
    /\ rate_limiter = NewRateLimiter
    /\ call = NoCall
    /\ ret = NoResult(EmptyCache)
    /\ inflight = [train |-> IdleTrain, analyze |-> IdleAnalyze]

\* train(data), data not empty: lines 39-46 touch no field of the analyzer
TrainBegin(data) ==
    /\ inflight.train.pc = "idle"
    /\ inflight' = [inflight EXCEPT !.train = [pc |-> "fit", data |-> data]]
    /\ UNCHANGED <<usdc_weight, dummies_numeric, rate_limiter, is_trained, training_data, model,
                   address_cache, call, ret>>

\* line 49: self.model.fit(X)
TrainFit ==
    /\ inflight.train.pc = "fit"
    /\ model' = FittedModel(inflight.train.data)
    /\ inflight' = [inflight EXCEPT !.train.pc = "flag"]
    /\ UNCHANGED <<usdc_weight, dummies_numeric, rate_limiter, is_trained, training_data, address_cache,
                   call, ret>>

\* line 50: self.is_trained = True
TrainSetFlag ==
    /\ inflight.train.pc = "flag"
    /\ is_trained' = TRUE
    /\ inflight' = [inflight EXCEPT !.train.pc = "store"]
    /\ UNCHANGED <<usdc_weight, dummies_numeric, rate_limiter, training_data, model, address_cache,
                   call, ret>>

\* line 51: self.training_data = data.copy()
TrainStoreData ==
    /\ inflight.train.pc = "store"
    /\ training_data' = inflight.train.data
    /\ inflight' = [inflight EXCEPT !.train = IdleTrain]
    /\ UNCHANGED <<usdc_weight, dummies_numeric, rate_limiter, is_trained, model, address_cache,
                   call, ret>>

\* analyze_transaction(event) up to the rule-based analysis (lines 114-119)
AnalyzeBegin(event, env) ==
    /\ inflight.analyze.pc \in {"idle", "done"}
    /\ inflight' = [inflight EXCEPT !.analyze = [IdleAnalyze EXCEPT !.pc = "flag",
                                                  !.event = event, !.env = env]]
    /\ UNCHANGED <<usdc_weight, dummies_numeric, rate_limiter, is_trained, training_data, model,
                   address_cache, call, ret>>

\* What the call returns from the fields it has read
AnalyzeReturn(seen) ==
    /\ ret' = AnalyzeTransaction(seen.event, seen.trained, seen.model, seen.data,
                                 dummies_numeric, address_cache, usdc_weight, seen.env)
    /\ call' = [NoCall EXCEPT !.op = "analyze", !.event = seen.event, !.env = seen.env]
    /\ inflight' = [inflight EXCEPT !.analyze = [seen EXCEPT !.pc = "done"]]

\* line 123: if self.is_trained; the rule score alone is returned when it is not
AnalyzeReadFlag ==
    /\ inflight.analyze.pc = "flag"
    /\ IF is_trained
       THEN /\ inflight' = [inflight EXCEPT !.analyze.pc = "columns",
                                             !.analyze.trained = TRUE]
            /\ UNCHANGED <<call, ret>>
       ELSE AnalyzeReturn(inflight.analyze)
    /\ UNCHANGED <<usdc_weight, dummies_numeric, rate_limiter, is_trained, training_data, model,
                   address_cache>>

\* line 224: the columns of self.training_data.head(1)
AnalyzeReadColumns ==
    /\ inflight.analyze.pc = "columns"
    /\ inflight' = [inflight EXCEPT !.analyze.pc = "score", !.analyze.data = training_data]
    /\ UNCHANGED <<usdc_weight, dummies_numeric, rate_limiter, is_trained, training_data, model,
                   address_cache, call, ret>>

\* line 235: self.model.decision_function, then the blend and the return
AnalyzeScore ==
    /\ inflight.analyze.pc = "score"
    /\ AnalyzeReturn([inflight.analyze EXCEPT !.model = model])
    /\ UNCHANGED <<usdc_weight, dummies_numeric, rate_limiter, is_trained, training_data, model,
                   address_cache>>

TrainThread ==
    \/ \E data \in ConcTrainSets : TrainBegin(data)
    \/ TrainFit
    \/ TrainSetFlag
    \/ TrainStoreData

AnalyzeThread ==
    \/ \E fiat \in ConcFiatLegs, d \in ConcDecisions :
          AnalyzeBegin([fiat |-> fiat, crypto |-> NoCrypto], [NoEnv EXCEPT !.decision = d])
    \/ AnalyzeReadFlag
    \/ AnalyzeReadColumns
    \/ AnalyzeScore

NextConc == TrainThread \/ AnalyzeThread

SpecConc == InitConc /\ [][NextConc]_vars

\* C9: an analyze call that found the analyzer trained scored against one training
\* run: the stored training data it took the columns from is not the empty frame of
\* __init__, and the estimator it asked was fitted on that same data.
C9_ConsistentSnapshot ==
    (inflight.analyze.pc = "done" /\ inflight.analyze.trained) =>
        /\ inflight.analyze.data # <<>>
        /\ inflight.analyze.model = FittedModel(inflight.analyze.data)

---------------------------------------------------------------------------
(* SpecLedger: _get_address_transactions called from the request threads of   *)
(* the server (app_unified.py runs Flask's threaded server over one shared    *)
(* CryptoTransactionAnalyzer).  The method takes no lock: the cache test, the *)
(* limiter's read and write, the requests and the cache write are steps of    *)
(* their own, and time passes between them.                                   *)

LookupThreads == {"t1", "t2"}

LookupAddresses == {"0x742d"}

LookupCurrencies == {"ETH", "USDC"}

LedgerTxlist == {Ok(HistoryNew), Failed("http")}

LedgerInternal == {Ok(InternalOne), Failed("api"), Failed("exception")}

\* PROCESSING_TIMEOUT = 1.0 (seconds)
PROCESSING_TIMEOUT == 1 * TICKS_PER_SECOND

\* A thread's locals.  stage is the request the thread is about, wake_in what is
\* left of its sleep, pending how long the request it waits for has been out
\* (saturating past the budget), gap how long before its last request the previous request
\* through the analyzer's limiter had gone out (saturating at the interval).
IdleLookup == [pc |-> "idle", address |-> "", currency |-> "", txs |-> <<>>, none |-> TRUE,
               result |-> <<>>, hit |-> FALSE, requests |-> 0, stage |-> "",
               wake_in |-> 0, pending |-> 0, gap |-> MinInterval(ETHERSCAN_RATE_LIMIT)]

InitLedger ==
    /\ usdc_weight \in UsdcWeights
    /\ dummies_numeric = FALSE
    /\ is_trained = FALSE
    /\ training_data = <<>>
    /\ model = UnfittedModel
    /\ address_cache = EmptyCache
    /\ rate_limiter = NewRateLimiter
    /\ call = NoCall
    /\ ret = NoResult(EmptyCache)
    /\ inflight = [t \in LookupThreads |-> IdleLookup]

\* A lookup touches the cache, the limiter and its own locals only
OthersUnchanged ==
    UNCHANGED <<usdc_weight, dummies_numeric, is_trained, training_data, model, call, ret>>

\* analyze_transaction reaches _get_address_transactions(address, currency);
\* the previous call of the thread has returned
LookupBegin(t, address, currency) ==
    /\ \/ inflight[t].pc \in {"idle", "returned"}
       \/ inflight[t].pc = "done" /\ inflight[t].currency # "USDC"
    /\ inflight' = [inflight EXCEPT ![t] = [IdleLookup EXCEPT !.pc = "check",
                       !.address = address, !.currency = currency]]
    /\ UNCHANGED <<address_cache, rate_limiter>>
    /\ OthersUnchanged

\* lines 188-200: the cache test, and the address test for another currency
LookupCheckCache(t) ==
    LET l == inflight[t]
    IN  /\ l.pc = "check"
        /\ inflight' = [inflight EXCEPT ![t] =
              IF l.address \in DOMAIN address_cache
              THEN [l EXCEPT !.pc = "done", !.none = FALSE, !.hit = TRUE,
                             !.result = address_cache[l.address]]
              ELSE IF l.currency # "ETH" /\ ~IsValidEthAddress(l.address)
              THEN [l EXCEPT !.pc = "done"]
              ELSE [l EXCEPT !.pc = "wait", !.stage = "txlist"]]
        /\ UNCHANGED <<address_cache, rate_limiter>>
        /\ OthersUnchanged

\* wait_if_needed, lines 22-27: the clock and last_request_time are read and the
\* sleep, if any, begins
WaitIfNeededRead(t) ==
    LET l == inflight[t]
    IN  /\ l.pc = "wait"
        /\ inflight' = [inflight EXCEPT ![t] =
                           [l EXCEPT !.pc = "sleep", !.wake_in = WaitTime(rate_limiter)]]
        /\ UNCHANGED <<address_cache, rate_limiter>>
        /\ OthersUnchanged

\* wait_if_needed, line 31, once the sleep is over: last_request_time is set;
\* the caller then sends its request (lines 218, 234)
WaitIfNeededStamp(t) ==
    LET l == inflight[t]
    IN  /\ l.pc = "sleep"
        /\ l.wake_in = 0
        /\ rate_limiter' = Stamped(rate_limiter)
        /\ inflight' = [inflight EXCEPT ![t] =
                           [l EXCEPT !.pc = "request", !.pending = 0,
                                     !.gap = rate_limiter.since_last_request]]
        /\ UNCHANGED address_cache
        /\ OthersUnchanged

\* lines 218-228: the txlist response arrives and is checked
LookupTxlist(t, r1) ==
    LET l == inflight[t]
    IN  /\ l.pc = "request"
        /\ l.stage = "txlist"
        /\ inflight' = [inflight EXCEPT ![t] =
              IF r1.kind # "ok" THEN [l EXCEPT !.pc = "done", !.requests = 1, !.pending = 0]
              ELSE [l EXCEPT !.pc = "wait", !.stage = "txlistinternal", !.requests = 1,
                             !.pending = 0, !.txs = r1.result]]
        /\ UNCHANGED <<address_cache, rate_limiter>>
        /\ OthersUnchanged

\* lines 234-244: the txlistinternal response arrives, the combined list
LookupInternal(t, r2) ==
    LET l == inflight[t]
    IN  /\ l.pc = "request"
        /\ l.stage = "txlistinternal"
        /\ inflight' = [inflight EXCEPT ![t] =
              IF r2.kind \in {"exception", "malformed"}
              THEN [l EXCEPT !.pc = "done", !.requests = 2, !.pending = 0]
              ELSE [l EXCEPT !.pc = "write", !.requests = 2, !.pending = 0,
                             !.txs = IF r2.kind = "ok" THEN l.txs \o r2.result ELSE l.txs]]
        /\ UNCHANGED <<address_cache, rate_limiter>>
        /\ OthersUnchanged

\* lines 247-249: self.address_cache[address] = all_transactions; return
LookupWrite(t) ==
    LET l == inflight[t]
    IN  /\ l.pc = "write"
        /\ address_cache' = [a \in DOMAIN address_cache \cup {l.address} |->
                                IF a = l.address THEN l.txs ELSE address_cache[a]]
        /\ inflight' = [inflight EXCEPT ![t] = [l EXCEPT !.pc = "done", !.none = FALSE,
                                                         !.result = l.txs]]
        /\ UNCHANGED rate_limiter
        /\ OthersUnchanged

\* risk_scoring.py 93-99 and usdc_analyzer.py 64, 90-104: for a USDC leg the
\* scorer goes on to analyze_usdc_erc20_transactions, which makes a limiter of
\* its own, calls its wait_if_needed (last_request_time is 0: no sleep) and sends
\* the tokentx request.  The analyzer's limiter is neither read nor written.
UsdcRelease(t) ==
    LET l == inflight[t]
        limiter == NewRateLimiter
    IN  /\ l.pc = "done"
        /\ l.currency = "USDC"
        /\ WaitTime(limiter) = 0
        /\ inflight' = [inflight EXCEPT ![t] =
                           [l EXCEPT !.pc = "request", !.stage = "tokentx", !.pending = 0,
                                     !.gap = rate_limiter.since_last_request]]
        /\ UNCHANGED <<address_cache, rate_limiter>>
        /\ OthersUnchanged

\* usdc_analyzer.py 104-117: the tokentx response arrives, whatever it holds,
\* and the call returns
UsdcResponse(t) ==
    LET l == inflight[t]
    IN  /\ l.pc = "request"
        /\ l.stage = "tokentx"
        /\ inflight' = [inflight EXCEPT ![t] = [l EXCEPT !.pc = "returned", !.pending = 0]]
        /\ UNCHANGED <<address_cache, rate_limiter>>
        /\ OthersUnchanged

\* One tick of time: every clock of the model moves, no thread does
Tick ==
    /\ rate_limiter' = Aged(rate_limiter, 1)
    /\ inflight' = [t \in LookupThreads |->
          LET l == inflight[t]
          IN  [l EXCEPT !.wake_in = Max2(l.wake_in - 1, 0),
                        !.pending = IF l.pc = "request"
                                    THEN Min2(l.pending + 1, PROCESSING_TIMEOUT + 1)
                                    ELSE l.pending]]
    /\ UNCHANGED address_cache
    /\ OthersUnchanged

LookupThread(t) ==
    \/ \E a \in LookupAddresses, c \in LookupCurrencies : LookupBegin(t, a, c)
    \/ LookupCheckCache(t)
    \/ WaitIfNeededRead(t)
    \/ WaitIfNeededStamp(t)
    \/ \E r1 \in LedgerTxlist : LookupTxlist(t, r1)
    \/ \E r2 \in LedgerInternal : LookupInternal(t, r2)
    \/ LookupWrite(t)
    \/ UsdcRelease(t)
    \/ UsdcResponse(t)

NextLedger == Tick \/ \E t \in LookupThreads : LookupThread(t)

SpecLedger == InitLedger /\ [][NextLedger]_vars

\* C10: a cached history stays: no step removes the entry of an address or puts
\* another list in its place, and a lookup that finds the address cached returns
\* the cached list and sends no request (so it neither waits on nor updates the
\* rate limiter).
C10_CachedForLife ==
    [][/\ \A a \in DOMAIN address_cache :
             a \in DOMAIN address_cache' /\ address_cache'[a] = address_cache[a]
       /\ \A t \in LookupThreads :
             (/\ inflight[t].pc = "check"
              /\ inflight'[t].pc # "check"
              /\ inflight[t].address \in DOMAIN address_cache)
                => /\ inflight'[t].pc = "done"
                   /\ inflight'[t].hit
                   /\ inflight'[t].result = address_cache[inflight[t].address]
                   /\ inflight'[t].requests = 0]_vars


\* Where a lookup is between its cache miss and its return
Fetching(t) == inflight[t].pc \in {"wait", "sleep", "request", "write"}
                  /\ inflight[t].stage \in {"txlist", "txlistinternal"}

\* C11: the cache test and the cache fill are synchronized: two lookups of the
\* same uncached address are never both past the miss, so at most one of them
\* goes to the network and the other finds the entry.
C11_OneRoundTrip ==
    \A t, u \in LookupThreads :
        (t # u /\ Fetching(t) /\ Fetching(u)) => inflight[t].address # inflight[u].address

\* C12: the tokentx request of the USDC analyzer passes the same limiter as
\* the analyzer's requests: it never goes out less than the minimum interval
\* after a txlist or txlistinternal request.
C12_OneSharedGate ==
    \A t \in LookupThreads :
        inflight[t].stage = "tokentx" =>
            inflight[t].gap >= MinInterval(ETHERSCAN_RATE_LIMIT)

\* C13: two requests released by wait_if_needed of the same limiter are never
\* less than 1/requests_per_second apart, whatever the interleaving.
C13_ReleasedApart ==
    \A t \in LookupThreads :
        (inflight[t].pc = "request" /\ inflight[t].stage \in {"txlist", "txlistinternal"})
            => inflight[t].gap >= MinInterval(rate_limiter.requests_per_second)

\* C14: no call is still waiting for the ledger once its request has been out
\* for the processing budget: it has given up and returned by then.
C14_WithinBudget ==
    \A t \in LookupThreads :
        inflight[t].pc = "request" => inflight[t].pending <= PROCESSING_TIMEOUT


---------------------------------------------------------------------------
(* Further claims about the fiat analyzer, checked under SpecFiat *)

\* The geo_ip of the leg is a country code, not an IP literal
GeoIsCode(tx) == tx.geo_is_str /\ ~IsValidIp(tx.geo_ip)

\* C17: the rule score of a scored fiat leg is the least of 1.0 and the sum of
\* 0.5 for a geo mismatch, 0.3 for an amount above 10000, 0.4 for a grey-listed
\* card_country and 0.4 for a grey-listed geo_ip; the 0.5 is there whenever
\* card_country and geo_ip are different country codes and absent when they are
\* equal; and the leg {5000, USD, US, NG} scored untrained has rule score 0.9, a
\* combined score of at least 90 and the tier Critical.
C17_RuleScore ==
    FiatScored =>
        LET tx == call.event.fiat
            large == IF tx.amount > 10000 THEN Tenths(3) ELSE 0
            card == IF tx.card_country \in FATF_GREY_LIST THEN Tenths(4) ELSE 0
            geo == IF tx.geo_ip \in FATF_GREY_LIST THEN Tenths(4) ELSE 0
        IN  /\ \E mismatch \in {0, Tenths(5)} :
                 /\ ret.fiat.rule_score = Min2(UNIT, mismatch + large + card + geo)
                 /\ (GeoIsCode(tx) /\ tx.card_country # tx.geo_ip) => mismatch = Tenths(5)
                 /\ tx.card_country = tx.geo_ip => mismatch = 0
            /\ (tx = FiatLeg(5000, "USD", "US", "NG") /\ ~is_trained) =>
                 /\ ret.fiat.rule_score = Tenths(9)
                 /\ ret.risk_score >= 9000
                 /\ ret.risk_level = "Critical"

C17_Witness ==
    /\ FiatScored
    /\ ~is_trained
    /\ call.event.fiat = FiatLeg(5000, "USD", "US", "NG")
    /\ ret.fiat.rule_score = Tenths(9)
    /\ ret.risk_score = 9000
    /\ ret.risk_level = "Critical"

\* The alerts of the geo-mismatch rule among those of a result
GeoMismatchAlerts(alerts) ==
    {i \in 1..Len(alerts) : alerts[i].text \in {"Geo mismatch: {} IP vs {} card",
                                                 "Geo mismatch: {} vs {}"}}

\* C18: for a geo_ip that is an IP literal the geo-mismatch rule compares the
\* country the geo-IP service resolves with card_country; when the service gives
\* no country it compares geo_ip itself with card_country, so the 0.5 and the
\* alert are there after a failed lookup.
C18_FailedLookupComparesRawStrings ==
    (FiatScored /\ call.event.fiat.geo_is_str /\ IsValidIp(call.event.fiat.geo_ip)) =>
        LET tx == call.event.fiat
            resolved == call.env.ip_country
            mismatch == IF resolved # "" THEN resolved # tx.card_country
                        ELSE tx.geo_ip # tx.card_country
            large == IF tx.amount > 10000 THEN Tenths(3) ELSE 0
            card == IF tx.card_country \in FATF_GREY_LIST THEN Tenths(4) ELSE 0
            geo == IF tx.geo_ip \in FATF_GREY_LIST THEN Tenths(4) ELSE 0
        IN  /\ ret.fiat.rule_score =
                  Min2(UNIT, (IF mismatch THEN Tenths(5) ELSE 0) + large + card + geo)
            /\ mismatch <=> GeoMismatchAlerts(ret.fiat.alerts) # {}

\* str.upper() on the country codes of the model
UpperCode(code) == IF code = "ng" THEN "NG" ELSE code

\* C19: matching against the risk lists ignores letter case: an address gets
\* the direct-hit result and the mixer-counterparty result of its lower-case
\* form, and a fiat leg gets the grey-list contributions of its codes in upper
\* case ('ng' those of 'NG').
C19_MatchingIgnoresCase ==
    /\ \A a \in HexAddresses :
          /\ CheckKnownRiskyAddress(a).risk = CheckKnownRiskyAddress(Lower(a)).risk
          /\ IsMixerTx(LedgerTx(a, "", 1, 0)) = IsMixerTx(LedgerTx(Lower(a), "", 1, 0))
          /\ IsMixerTx(LedgerTx("0xbeef", a, 1, 0)) = IsMixerTx(LedgerTx("0xbeef", Lower(a), 1, 0))
    /\ (FiatScored /\ GeoIsCode(call.event.fiat)) =>
          LET tx == call.event.fiat
              large == IF tx.amount > 10000 THEN Tenths(3) ELSE 0
              card == IF UpperCode(tx.card_country) \in FATF_GREY_LIST THEN Tenths(4) ELSE 0
              geo == IF UpperCode(tx.geo_ip) \in FATF_GREY_LIST THEN Tenths(4) ELSE 0
              mismatch == IF tx.card_country # tx.geo_ip THEN Tenths(5) ELSE 0
          IN  ret.fiat.rule_score = Min2(UNIT, mismatch + large + card + geo)

\* A scored fiat leg without indicator: the codes agree and are codes, the
\* amount is at most 10000, neither code is grey-listed, and the estimator, when
\* there is one, calls the leg an inlier (decision_function above 0)
FiatLegClean(tx, trained, decision) ==
    /\ FiatFields \subseteq tx.keys
    /\ tx.amount_num /\ tx.amount <= 10000
    /\ GeoIsCode(tx) /\ tx.card_country = tx.geo_ip
    /\ tx.card_country \notin FATF_GREY_LIST
    /\ trained => decision > 0

\* A scored crypto leg without indicator: no direct hit, a history, and nothing
\* found in it by the mixer check and the pattern rules
CryptoLegClean(crypto) ==
    /\ crypto.path = "history"
    /\ crypto.known.risk = 0
    /\ crypto.mixer.risk = 0
    /\ crypto.pattern.risk = 0

\* C20: an event whose legs carry no fraud indicator scores below 30 and is Low;
\* the fiat-only event {50, EUR, DE, DE} scored untrained has rule score 0, the
\* tier Low and no alert.
C20_NoIndicatorIsLow ==
    Returned =>
        /\ (/\ call.event.fiat.present \/ call.event.crypto.present
            /\ call.event.fiat.present =>
                   FiatLegClean(call.event.fiat, is_trained, call.env.decision)
            /\ call.event.crypto.present => CryptoLegClean(ret.crypto))
              => (ret.risk_score < 3000 /\ ret.risk_level = "Low")
        /\ (/\ call.event.fiat = FiatLeg(50, "EUR", "DE", "DE")
            /\ ~call.event.crypto.present
            /\ ~is_trained)
              => (ret.fiat.rule_score = 0 /\ ret.risk_level = "Low" /\ ret.alerts = <<>>)

\* C22: when a leg is scored in the Trained state, the vector handed to the
\* estimator has exactly the columns the estimator was fitted on by the last
\* train call (the one-hot columns of all training rows, geo_mismatch and
\* log_amount), in the same order.
C22_VectorHasFittedColumns ==
    (/\ call.op = "analyze"
     /\ is_trained
     /\ call.event.fiat.present
     /\ FiatValidateTransaction(call.event.fiat) = "ok"
     /\ call.event.fiat.amount_num)
        => TrainedColumns(training_data, dummies_numeric)
              = PreprocessColumns(model.data, dummies_numeric)

---------------------------------------------------------------------------
(* Further claims about the crypto analyzer, checked under SpecCrypto *)

\* A leg the fiat analyzer is to reject: one of the four fields is missing
InvalidFiatLeg(tx) == ~(FiatFields \subseteq tx.keys)

\* A leg the crypto analyzer is to reject: a field is missing, the address (a
\* string) is not 0x and 40 hex characters, or the amount is no positive number
InvalidCryptoLeg(tx) ==
    \/ ~(CryptoFields \subseteq tx.keys)
    \/ /\ tx.addr_is_str
       /\ ~IsValidEthAddress(tx.address) \/ tx.amount_kind # "pos"

\* The fixed answer to an invalid leg: 0.8 and one alert with the given text
IsFallback(channel, text) ==
    /\ ~channel.raised
    /\ channel.score = Tenths(8)
    /\ Len(channel.alerts) = 1
    /\ channel.alerts[1].text = text

\* C16: an invalid leg is answered with the fixed fallback, 0.8 and exactly one
\* "Invalid ..." alert, not with an error, and the ledger is not asked: the fiat
\* leg when one of its four fields is missing, the crypto leg when its address
\* is malformed or its amount is not a positive number.
C16_InvalidLegFallback ==
    call.op = "analyze" =>
        /\ (call.event.fiat.present /\ InvalidFiatLeg(call.event.fiat))
              => IsFallback(ret.fiat, "Invalid transaction data")
        /\ (call.event.crypto.present /\ InvalidCryptoLeg(call.event.crypto))
              => /\ IsFallback(ret.crypto, "Invalid crypto transaction data")
                 /\ ret.crypto.lookup.requests = 0

\* The call fetched a history from the ledger and stored it
StoredHistory == LookupSent /\ ~ret.crypto.lookup.none

\* C23: a history that a lookup returns and stores is the normal list together
\* with the internal list: it is stored only when the txlistinternal request
\* succeeded too, never with the internal transactions missing because that
\* request failed.
C23_StoredHistoryIsUnion ==
    StoredHistory =>
        /\ call.env.txlist.kind = "ok"
        /\ call.env.txlistinternal.kind = "ok"
        /\ ret.crypto.lookup.txs = call.env.txlist.result \o call.env.txlistinternal.result
        /\ address_cache[call.event.crypto.address] = ret.crypto.lookup.txs

\* The transaction has a mixer as sender or receiver
TouchesMixer(tx) ==
    Lower(tx.from) \in KNOWN_MIXER_ADDRESSES \/ Lower(tx.to) \in KNOWN_MIXER_ADDRESSES

\* What the claim gives for a history: the sub-score by the share p of the value
\* moved with mixers (p is 100 * mixer / total), and how many alerts
MixerTier(txs) ==
    LET touching == {i \in 1..Len(txs) : TouchesMixer(txs[i])}
        mixer == SumSeq([i \in 1..Len(txs) |-> IF i \in touching THEN txs[i].value ELSE 0])
        total == SumSeq([i \in 1..Len(txs) |-> txs[i].value])
    IN  IF total = 0 \/ mixer = 0 THEN [risk |-> 0, alerts |-> 0, count |-> 0]
        ELSE [risk |-> IF 100 * mixer > 50 * total THEN Tenths(10)
                       ELSE IF 100 * mixer > 20 * total THEN Tenths(8)
                       ELSE IF 100 * mixer > 5 * total THEN Tenths(6)
                       ELSE Tenths(4),
              alerts |-> 1, count |-> Cardinality(touching)]

\* The mixer check agrees with the claim on this history
MixerCheckAgrees(sub, txs) ==
    /\ sub.risk = MixerTier(txs).risk
    /\ Len(sub.alerts) = MixerTier(txs).alerts
    /\ sub.alerts # <<>> => sub.alerts[1].n[2] = MixerTier(txs).count

\* A history of k transactions of equal value, the first one from a mixer
OneMixerAmong(k, value) ==
    [i \in 1..k |-> LedgerTx(IF i = 1 THEN "0x8589" ELSE "0xbeef", "0x742d", value, i)]

\* C24: the mixer sub-score of a history is 1.0 for p > 50, 0.8 for 20 < p <= 50,
\* 0.6 for 5 < p <= 20, 0.4 for 0 < p <= 5 and 0.0 without alert for p = 0, with
\* exactly one alert iff p > 0.  A value of the model is in units of 10^15 base
\* units, so the values of 10000 are above 2^63 base units.
C24_MixerTiers ==
    /\ (CryptoScored /\ ret.crypto.path = "history")
          => MixerCheckAgrees(ret.crypto.mixer, ret.crypto.lookup.txs)
    /\ \A k \in {1, 2, 3, 5, 6, 20, 21} :
          /\ MixerCheckAgrees(CheckMixerInteraction(OneMixerAmong(k, 10000)), OneMixerAmong(k, 10000))
          /\ CheckMixerInteraction(OneMixerAmong(k, 10000)).risk =
                 IF k = 1 THEN Tenths(10) ELSE IF k <= 3 THEN Tenths(8)
                 ELSE IF k <= 6 THEN Tenths(6) ELSE Tenths(4)

C24_Witness ==
    /\ CryptoScored
    /\ ret.crypto.path = "history"
    /\ Len(ret.crypto.lookup.txs) = 2
    /\ ret.crypto.lookup.txs[1].value = 10
    /\ ret.crypto.mixer.risk = Tenths(8)
    /\ Len(ret.crypto.mixer.alerts) = 1

\* The lookup of the returned call sent a request and returned None
LookupFailed ==
    /\ CryptoScored
    /\ ret.crypto.lookup.none
    /\ ret.crypto.lookup.requests > 0

\* C29: a failed ledger lookup (a status code other than 200, an API status other
\* than "1", or an exception at any point of the fetch, the internal-transaction
\* request included) creates and modifies no cache entry of any address, so the
\* next lookup of the address sends a request again.
C29_FailedLookupLeavesCache ==
    [][LookupFailed' =>
          /\ address_cache' = address_cache
          /\ call'.event.crypto.address \notin DOMAIN address_cache'
          /\ \A r1 \in CryptoTxlist, r2 \in CryptoInternal :
                GetAddressTransactions(address_cache', call'.event.crypto.address,
                                       call'.event.crypto.currency, r1, r2).requests > 0]_vars

\* C29 witness: the internal-transaction request raised after a good txlist answer,
\* while the history of another address is cached
C29_Witness ==
    /\ LookupFailed
    /\ call.env.txlist.kind = "ok"
    /\ call.env.txlistinternal.kind = "exception"
    /\ ret.crypto.lookup.requests = 2
    /\ address_cache # EmptyCache
    /\ call.event.crypto.address \notin DOMAIN address_cache

---------------------------------------------------------------------------
(* Specification SpecHistory: the scorer with crypto-only events whose ledger *)
(* histories have four records, or a record with a value that is no number   *)

HistoryLegs == {CryptoLeg("0x742d", "ETH"), CryptoLeg("0xbeef", "ETH"), CryptoLeg("0x8589", "BTC")}

HistoryTxlist == {Ok(HistoryMixer), Ok(HistoryNew), Ok(HistoryNoStamp), Failed("http")}

HistoryInternal == {Ok(InternalPeel), Ok(InternalBad), Failed("api")}

InitHistory ==
    /\ usdc_weight \in UsdcWeights
    /\ dummies_numeric = FALSE
    /\ is_trained = FALSE
    /\ training_data = <<>>
    /\ model = UnfittedModel
    /\ address_cache = EmptyCache
    /\ rate_limiter = NewRateLimiter
    /\ call = NoCall
    /\ ret = NoResult(EmptyCache)
    /\ inflight = NoThreads

AnalyzeHistoryStep ==
    \E crypto \in HistoryLegs :
      \E r1 \in LedgerFor(crypto, address_cache, HistoryTxlist) :
       \E r2 \in InternalFor(crypto, address_cache, r1, HistoryInternal) :
        Analyze([fiat |-> NoFiat, crypto |-> crypto],
                [NoEnv EXCEPT !.txlist = r1, !.txlistinternal = r2])

NextHistory == AnalyzeHistoryStep

SpecHistory == InitHistory /\ [][NextHistory]_vars

\* A history came back for the crypto leg and every record of it has numbers
\* for its value and its timeStamp
NumericHistory ==
    /\ CryptoScored
    /\ ret.crypto.path = "history"
    /\ \A i \in 1..Len(ret.crypto.lookup.txs) :
          ret.crypto.lookup.txs[i].value_numeric /\ ret.crypto.lookup.txs[i].stamp_numeric

PeelingAlert == Alert("Possible peeling chain detected (decreasing transaction values)", <<>>, <<>>)

\* The number of consecutive pairs of the history, in time order, whose value drops
StrictDecreases(txs) ==
    Cardinality({i \in 1..(Len(txs) - 1) : SortByTime(txs)[i].value > SortByTime(txs)[i + 1].value})

\* C25: the peeling-chain rule flags risk 0.6, with its alert, exactly when the
\* number d of strictly decreasing consecutive value pairs of the time-sorted
\* history has d >= 2 and d > (n-1)/2, n-1 being the number of pairs; a history
\* of 4 transactions with 2 decreases out of 3 pairs is flagged.
C25_MoreThanHalfOfPairs ==
    NumericHistory =>
        LET txs == ret.crypto.lookup.txs
            d == StrictDecreases(txs)
            flagged == PeelingAlert \in SeqToSet(ret.crypto.pattern.alerts)
        IN  /\ flagged <=> (d >= 2 /\ 2 * d > Len(txs) - 1)
            /\ flagged => ret.crypto.pattern.risk >= Tenths(6)

AnalysisErrorAlert == Alert("Could not complete the full transaction analysis: {}", <<>>, <<>>)

\* The timeStamp of some record of the history is not a number
StampError(txs) == \E i \in 1..Len(txs) : ~txs[i].stamp_numeric

\* The value of some record is not a number and the peeling rule looks at the values
ValueError(txs) == Len(txs) >= 3 /\ \E i \in 1..Len(txs) : ~txs[i].value_numeric

\* A history came back and the pattern analysis ran into a record it cannot convert
PatternAnalysisFailed ==
    /\ CryptoScored
    /\ ret.crypto.path = "history"
    /\ StampError(ret.crypto.lookup.txs) \/ ValueError(ret.crypto.lookup.txs)

\* C26: when the pattern analysis hits an error on a malformed ledger record the
\* analyzer still returns a result: the pattern sub-score is at least 0.3, one
\* explanatory alert is appended, and the score and alerts of the direct-hit check,
\* of the mixer check and of the pattern rules that ran before the error are kept.
C26_ErrorKeepsEarlierFindings ==
    PatternAnalysisFailed =>
        LET c == ret.crypto
            txs == c.lookup.txs
            known == CheckKnownRiskyAddress(call.event.crypto.address)
            mixer == CheckMixerInteraction(txs)
            earlier == IF StampError(txs) THEN <<>>
                       ELSE AccountAgeRule(txs).alerts \o SingleTransactionRule(txs).alerts
            earlier_risk == IF StampError(txs) THEN 0
                            ELSE Max2(AccountAgeRule(txs).risk, SingleTransactionRule(txs).risk)
        IN  /\ ~ret.raised
            /\ c.pattern.risk = Max2(earlier_risk, Tenths(3))
            /\ c.pattern.alerts = earlier \o <<AnalysisErrorAlert>>
            /\ c.known = known
            /\ c.mixer = mixer
            /\ c.alerts = known.alerts \o mixer.alerts \o earlier \o <<AnalysisErrorAlert>>
            /\ c.score = Max2(IF known.alerts # <<>> THEN known.risk ELSE 0,
                              Max2(mixer.risk, Max2(earlier_risk, Tenths(3))))

\* C26 witness: a mixer address, a history with a mixer transfer of 60% and a
\* record whose value is no number: the direct hit and the mixer alert are
\* followed by the explanatory alert
C26_Witness ==
    /\ PatternAnalysisFailed
    /\ ValueError(ret.crypto.lookup.txs)
    /\ Lower(call.event.crypto.address) \in KNOWN_MIXER_ADDRESSES
    /\ ret.crypto.mixer.alerts # <<>>
    /\ Len(ret.crypto.alerts) = 3

\* A history came back for the crypto leg of the returned call
HistoryFetched == CryptoScored /\ ret.crypto.path = "history"

\* The records of the history with a mixer as sender or receiver, and those of
\* them whose value is a positive number
MixerRecords == {i \in 1..Len(ret.crypto.lookup.txs) : TouchesMixer(ret.crypto.lookup.txs[i])}

ValuedMixerRecords ==
    {i \in MixerRecords : ret.crypto.lookup.txs[i].value_numeric /\ ret.crypto.lookup.txs[i].value > 0}

\* The result carries the percentage-and-count alert of the mixer check
MixerAlertEmitted ==
    \E i \in 1..Len(ret.crypto.alerts) :
        ret.crypto.alerts[i].text = "Crypto: {}% from/to mixer ({} transactions)"

\* C30 as stated: whenever the fetched history has a transaction with a mixer as
\* sender or receiver, the crypto score is at least 0.4 and a mixer-interaction
\* alert is emitted, also when the values are zero or fail to parse.
C30_AnyMixerReflected ==
    (HistoryFetched /\ MixerRecords # {}) =>
        (ret.crypto.score >= Tenths(4) /\ MixerAlertEmitted)

\* C30, amended: whenever the fetched history has a transaction with a mixer as
\* sender or receiver whose value parses to a positive amount, the crypto score is
\* at least 0.4 and a mixer-interaction alert is emitted; mixer transactions of
\* zero value or with values that fail to parse add no mixer score and no alert.
C30_ValuedMixerReflected ==
    HistoryFetched =>
        /\ ValuedMixerRecords # {} => (ret.crypto.score >= Tenths(4) /\ MixerAlertEmitted)
        /\ ValuedMixerRecords = {} => (~MixerAlertEmitted /\ ret.crypto.mixer.risk = 0)

\* C30 witness: a history with a mixer transfer of positive value and one whose
\* value is no number: the alert is there and counts both
C30_Witness ==
    /\ HistoryFetched
    /\ ValuedMixerRecords # {}
    /\ ValuedMixerRecords # MixerRecords
    /\ MixerAlertEmitted
    /\ ret.crypto.mixer.alerts[1].n[2] = 2

---------------------------------------------------------------------------
(* Further claims about the scorer, checked under Spec *)

\* The CombinedResult of a call: what analyze_transaction hands back
CombinedResult(r) ==
    <<r.raised, r.risk_score, r.risk_level, r.alerts, r.fiat_risk, r.crypto_risk, r.usdc_risk>>

\* The step is the second of two analyze calls in a row with the same event
\* (the model is the same: analyze trains nothing) and the same answer of the
\* fitted estimator
RepeatedCall ==
    /\ call.op = "analyze"
    /\ call'.op = "analyze"
    /\ call'.event = call.event
    /\ call'.env.decision = call.env.decision

\* The second call needs no answer from outside the process: its crypto
\* address, if any, is in the cache when it starts and is not in USDC, and its
\* geo_ip is no IP literal
NoExternalAnswer(event, cache) ==
    /\ event.crypto.present =>
          /\ event.crypto.addr_is_str
          /\ event.crypto.address \in DOMAIN cache
          /\ ~RunsUsdcAnalysis(event.crypto)
    /\ event.fiat.present => ~(event.fiat.geo_is_str /\ IsValidIp(event.fiat.geo_ip))

\* C15 (as stated): analyze is a function of (event, cache, model): of two calls
\* in a row with the same event, the first of which left the cache as it found
\* it, the second returns the CombinedResult of the first.
C15_FunctionOfEventCacheModel ==
    [][(RepeatedCall /\ (ret.crypto.lookup.none \/ ret.crypto.lookup.hit))
          => CombinedResult(ret') = CombinedResult(ret)]_vars

\* C15 (amended): of two calls in a row with the same event, the second returns
\* the CombinedResult of the first whenever it needs no answer from the ledger
\* or the geo-IP service.
C15_SameResultWithoutExternalAnswer ==
    [][(RepeatedCall /\ NoExternalAnswer(call'.event, address_cache))
          => CombinedResult(ret') = CombinedResult(ret)]_vars

C15_Witness ==
    /\ Returned
    /\ call.event.fiat.present
    /\ is_trained
    /\ call.event.crypto.present
    /\ ret.crypto.lookup.hit
    /\ ret.crypto.path = "history"


\* The alert as the combined list shows it: the channel's name put before it
WithPrefix(channel, alert) ==
    [channel |-> channel, text |-> alert.text, s |-> alert.s, n |-> alert.n]

\* C21: the combined alert list is the fiat channel's alerts, then the crypto
\* channel's, then the stablecoin channel's, each with its channel's name before
\* it and in the channel's own order; its length is the sum of the lengths of
\* the three lists reported for the channels.
C21_AlertsConcatenated ==
    Returned =>
        LET f == ret.fiat_risk.alerts
            c == ret.crypto_risk.alerts
            u == ret.usdc_risk.alerts
        IN  /\ Len(ret.alerts) = Len(f) + Len(c) + Len(u)
            /\ \A i \in 1..Len(f) : ret.alerts[i] = WithPrefix("Fiat", f[i])
            /\ \A i \in 1..Len(c) : ret.alerts[Len(f) + i] = WithPrefix("Crypto", c[i])
            /\ \A i \in 1..Len(u) : ret.alerts[Len(f) + Len(c) + i] = WithPrefix("USDC", u[i])

C21_Witness ==
    /\ Returned
    /\ Len(ret.fiat_risk.alerts) >= 2
    /\ Len(ret.crypto_risk.alerts) >= 1
    /\ Len(ret.usdc_risk.alerts) = 1
    /\ Len(ret.alerts) >= 4


\* The stablecoin analysis ran with an API key for the returned call
UsdcAnalysed ==
    /\ Returned
    /\ RunsUsdcAnalysis(call.event.crypto)
    /\ call.env.has_key

\* A transfer list of n entries, the first r of them sent by a scam, a darknet or
\* a mixer address in turn
RiskyAmong(r, n) ==
    [i \in 1..n |-> LedgerTx(IF i > r THEN "0xbeef"
                             ELSE IF i % 3 = 1 THEN "0x1446"
                             ELSE IF i % 3 = 2 THEN "0x3cbd" ELSE "0xD90E",
                             "0x742d", 1, i)]

\* What the claim gives for r risky entries among n: r/n above 10%, else 0
ShareAboveTenth(r, n) == IF n > 0 /\ 10 * r > n THEN (r * UNIT) \div n ELSE 0

\* The entries of a transfer list with a sender or receiver in one of the three sets
RiskyEntries(txs) ==
    {i \in 1..Len(txs) :
        \E a \in {Lower(txs[i].from), Lower(txs[i].to)} :
            a \in KNOWN_MIXER_ADDRESSES \cup KNOWN_DARKNET_ADDRESSES \cup KNOWN_SCAM_ADDRESSES}

\* C27: the stablecoin analyzer returns 0 without transfer entries or when the
\* fetch is unavailable; else, with r risky entries among n, r/n if r/n > 0.10
\* and 0 otherwise: exactly 10% yields 0 and a result is 0 or in (0.1, 1.0].
C27_ShareAboveTenPercent ==
    /\ UsdcAnalysed =>
          LET txs == IF call.env.tokentx.kind = "ok" THEN call.env.tokentx.result ELSE <<>>
          IN  /\ ret.usdc_score = ShareAboveTenth(Cardinality(RiskyEntries(txs)), Len(txs))
              /\ ret.usdc_score = 0 \/ (ret.usdc_score > UNIT \div 10 /\ ret.usdc_score <= UNIT)
    /\ \A n \in {1, 9, 10, 11, 20} : \A r \in 0..Min2(n, 3) :
          /\ Cardinality(RiskyEntries(RiskyAmong(r, n))) = r
          /\ CalculateUsdcRisk(RiskyAmong(r, n)) = ShareAboveTenth(r, n)
    /\ CalculateUsdcRisk(RiskyAmong(1, 10)) = 0
    /\ CalculateUsdcRisk(RiskyAmong(2, 20)) = 0
    /\ CalculateUsdcRisk(RiskyAmong(1, 9)) > UNIT \div 10
    /\ CalculateUsdcRisk(RiskyAmong(3, 3)) = UNIT

\* C27 witness: one risky transfer out of two gives 0.5; an unavailable fetch gives 0
C27_Witness ==
    /\ UsdcAnalysed
    /\ call.env.tokentx.kind = "ok"
    /\ Len(call.env.tokentx.result) = 2
    /\ ret.usdc_score = UNIT \div 2

C27_WitnessUnavailable ==
    /\ UsdcAnalysed
    /\ call.env.tokentx.kind # "ok"
    /\ ret.usdc_score = 0


\* The stablecoin scores the analysis of the returned call is compared with
LowerUsdcScores == {0, UNIT \div 5, UNIT \div 2}

\* The riskScore of the returned call had its stablecoin analysis come to u, the
\* fiat and crypto channel scores being what they are
RiskScoreWithUsdc(u) ==
    NormalizedRisk(CalculateCombinedRiskWithUsdc(ret.fiat.score, ret.crypto.score, u,
                       call.event.fiat.present, call.event.crypto.present,
                       HasUsdcAnalysis(TRUE, u), usdc_weight))

\* C28: for an event with a USDC crypto leg and fixed fiat and crypto channel
\* scores, a higher stablecoin score never yields a lower riskScore; going from
\* stablecoin score 0 to a positive one never lowers riskScore.
C28_MonotoneInUsdcScore ==
    (UsdcAnalysed /\ usdc_weight > 0) =>
        /\ ret.risk_score = RiskScoreWithUsdc(ret.usdc_score)
        /\ \A u \in LowerUsdcScores : u <= ret.usdc_score => RiskScoreWithUsdc(u) <= ret.risk_score

===========================================================================
